---- MODULE Spec2Model ----
(***************************************************************************)
(* The bank-vaults operator core (package vault: Init, Unseal, Rekey,      *)
(* NewUnsealKeysExists, Configure) and the CLI rekey loop, as a state      *)
(* machine.  One operator (a *vault value with its keystore and its Vault  *)
(* client) runs one verb at a time; a verb advances one keystore or Vault  *)
(* call per step, and every such call may fail.  The Vault server and the  *)
(* keystore are the environment; their answers follow the request the code *)
(* builds.                                                                 *)
(*                                                                         *)
(* Strings and byte slices are tagged tuples: <<"tok", bytes>> a token,    *)
(* <<"share", gen, i>> an unseal share, <<"b64", x>> the base64 text of x. *)
(* Keystore key names are tuples as well: "vault-unseal-" followed by i is *)
(* <<"vault-unseal-", i>>, and r + "-" + name is <<r, "-", name>>.         *)
(*                                                                         *)
(* Line numbers are those of src/unnamed/part_000 (package vault); the     *)
(* rekey command's are those of src/unnamed/part_001.                      *)
(***************************************************************************)
EXTENDS Integers, Sequences, FiniteSets, TLC

VARIABLES
    cfg,        \* *Config of the operator (vault.config)
    pc,         \* position of the operator: "new", "idle", a step of a verb, "done", "failed"
    opName,     \* the verb that is running or has just returned
    err,        \* what the verb returned: "nil" or the name of the error
    trace,      \* the keystore and Vault calls of the running verb, in order
    keyStore,   \* the keystore: key name -> stored bytes
    token,      \* the Vault client's token (v.cl.SetToken)
    vlt,        \* the Vault server
    i,          \* loop index of the running verb
    resp,       \* the Vault response the running verb holds
    nonce,      \* nonce of the running rekey or generate-root
    args,       \* arguments and further locals of the running verb
    rootToken,  \* Configure's rootToken buffer
    extCfg,     \* vault.externalConfig
    rekeyCfg,   \* the rekey command's recipients, or NoLoop when it is not running
    tick,       \* what the current tick of the rekey loop has seen
    hist        \* facts about earlier verbs that later verbs' claims refer to

vars == <<cfg, pc, opName, err, trace, keyStore, token, vlt, i, resp, nonce,
          args, rootToken, extCfg, rekeyCfg, tick, hist>>

\* Largest SecretShares / SecretThreshold a Config is drawn with.
MaxShares == 2

--------------------------------------------------------------------------
\* Strings, bytes, encodings

Tok(b) == <<"tok", b>>
EmptyStr == Tok(<<>>)
Share(g, n) == <<"share", g, n>>
RecoveryShare(n) == <<"rshare", n>>
Stale == <<"stale">>

B64(x) == <<"b64", x>>
B64Decode(s) ==
    IF s[1] = "b64" THEN [ok |-> TRUE, val |-> s[2]] ELSE [ok |-> FALSE, val |-> EmptyStr]

\* Tokens the Vault server hands out, and the one the Config may ask for.
RootTok == Tok(<<1, 1>>)
StaticRoot == Tok(<<3, 3>>)

--------------------------------------------------------------------------
\* Key naming

keyRootToken == <<"vault-root">>
keyTestField == <<"vault-test">>

keyUnsealForID_zero(n) == <<"vault-unseal-", 0>>
keyUnsealForID_off(n) == <<"vault-unseal-", n + 1>>
keyUnsealForID(n) == <<"vault-unseal-", n>>

keyRecoveryForID_unseal(n) == <<"vault-unseal-", n>>
keyRecoveryForID(n) == <<"vault-recovery-", n>>

--------------------------------------------------------------------------
\* Keystore port.  A call either reaches the backend or fails (fault).

EmptyStore == [k \in {} |-> Stale]

\* KVService.Get: the bytes, or NotFound, or a backend error.
Get(key, fault) ==
    IF fault THEN [val |-> EmptyStr, err |-> "backend"]
    ELSE IF key \in DOMAIN keyStore THEN [val |-> keyStore[key], err |-> "nil"]
    ELSE [val |-> EmptyStr, err |-> "notfound"]

\* KVService.Set on store s: the store afterwards.
Set(s, key, val) ==
    [k \in (DOMAIN s) \cup {key} |-> IF k = key THEN val ELSE s[k]]

isNotFoundError(e) == e = "notfound"

keyStoreNotFound(key, fault) ==
    LET r == Get(key, fault)
    IN  IF isNotFoundError(r.err) THEN [notFound |-> TRUE, err |-> "nil"]
        ELSE [notFound |-> FALSE, err |-> r.err]

\* keyStoreSet: [store, err, set] with set = whether Set was called.
keyStoreSet_overwrite(key, val, getFault, setFault) ==
    IF setFault THEN [store |-> keyStore, err |-> "backend", set |-> TRUE]
    ELSE [store |-> Set(keyStore, key, val), err |-> "nil", set |-> TRUE]
keyStoreSet(key, val, getFault, setFault) ==
    LET nf == keyStoreNotFound(key, getFault)
    IN  IF nf.notFound
        THEN IF setFault THEN [store |-> keyStore, err |-> "backend", set |-> TRUE]
             ELSE [store |-> Set(keyStore, key, val), err |-> "nil", set |-> TRUE]
        ELSE IF nf.err = "nil"
             THEN [store |-> keyStore, err |-> "already exists", set |-> FALSE]
             ELSE [store |-> keyStore, err |-> "error setting key", set |-> FALSE]

--------------------------------------------------------------------------
\* Construction

Configs ==
    [SecretShares : 1..MaxShares, SecretThreshold : 1..MaxShares,
     InitRootToken : {EmptyStr, StaticRoot}, StoreRootToken : BOOLEAN,
     PreFlightChecks : BOOLEAN]

\* One call of the running verb: which call, on which key, under which
\* nonce (0: none), with which outcome.
Ev(call, key, n, res) == [call |-> call, key |-> key, n |-> n, res |-> res]
NoKey == <<>>

NoResp == [kind |-> "none"]
NoArgs == [kind |-> "none"]
NoLoop == <<>>
NoTick == [active |-> FALSE, exists |-> "unknown", sealed |-> "unknown", rekey |-> FALSE]

NoRekey == [started |-> FALSE, nonce |-> 0, pgp |-> <<>>, shares |-> 0,
            threshold |-> 0, progress |-> {}]
NoGenRoot == [started |-> FALSE, nonce |-> 0, otp |-> <<>>, legacy |-> FALSE,
              progress |-> {}]

\* A Vault server that was never initialized.
FreshVault(recovery) ==
    [initialized |-> FALSE, sealed |-> TRUE, recovery |-> recovery, gen |-> 0,
     shares |-> 0, threshold |-> 0, progress |-> {}, tokens |-> {},
     rekey |-> NoRekey, genroot |-> NoGenRoot]

\* The keys Init probes before it initializes Vault.
ProbeKeys(c) ==
    <<keyRootToken>> \o [n \in 1..(c.SecretShares + 1) |-> keyUnsealForID(n - 1)]

--------------------------------------------------------------------------
\* The Vault server, as far as Init and Unseal talk to it

ValidShares(v) == {Share(v.gen, n) : n \in 0..(v.shares - 1)}

\* api.InitRequest as Init builds it from the seal status.
InitRequest(c, recoverySeal) ==
    IF recoverySeal
    THEN [SecretShares |-> 0, SecretThreshold |-> 0,
          RecoveryShares |-> c.SecretShares, RecoveryThreshold |-> c.SecretThreshold]
    ELSE [SecretShares |-> c.SecretShares, SecretThreshold |-> c.SecretThreshold,
          RecoveryShares |-> 0, RecoveryThreshold |-> 0]

\* PUT /sys/init: one key per requested share, one recovery key per requested
\* recovery share, and the first root token.  A Vault behind a recovery seal
\* unseals itself.
VaultInit_again(v, req) ==
    [ok |-> TRUE,
     v |-> [v EXCEPT !.initialized = TRUE, !.sealed = ~v.recovery, !.gen = @ + 1,
                     !.shares = req.SecretShares + req.RecoveryShares,
                     !.threshold = req.SecretThreshold + req.RecoveryThreshold,
                     !.tokens = {RootTok}],
     resp |-> [kind |-> "init",
               Keys |-> [n \in 1..req.SecretShares |-> Share(v.gen + 1, n - 1)],
               RecoveryKeys |-> [n \in 1..req.RecoveryShares |-> RecoveryShare(n - 1)],
               RootToken |-> RootTok]]
VaultInit(v, req) ==
    IF v.initialized THEN [ok |-> FALSE, v |-> v, resp |-> NoResp]
    ELSE [ok |-> TRUE,
          v |-> [v EXCEPT !.initialized = TRUE, !.sealed = ~v.recovery, !.gen = 1,
                          !.shares = req.SecretShares + req.RecoveryShares,
                          !.threshold = req.SecretThreshold + req.RecoveryThreshold,
                          !.tokens = {RootTok}],
          resp |-> [kind |-> "init",
                    Keys |-> [n \in 1..req.SecretShares |-> Share(1, n - 1)],
                    RecoveryKeys |-> [n \in 1..req.RecoveryShares |-> RecoveryShare(n - 1)],
                    RootToken |-> RootTok]]

\* PUT /sys/unseal.  Vault collects distinct shares; at the threshold it
\* either unseals or, the shares being wrong, drops them and answers with an
\* error or with Progress 0 (bad).
VaultUnseal(v, key, bad) ==
    IF ~v.initialized THEN [ok |-> FALSE, v |-> v, Sealed |-> TRUE, Progress |-> 0]
    ELSE IF ~v.sealed THEN [ok |-> TRUE, v |-> v, Sealed |-> FALSE, Progress |-> 0]
    ELSE LET p == v.progress \cup {key}
         IN  IF Cardinality(p) < v.threshold
             THEN [ok |-> TRUE, v |-> [v EXCEPT !.progress = p],
                   Sealed |-> TRUE, Progress |-> Cardinality(p)]
             ELSE IF p \subseteq ValidShares(v)
             THEN [ok |-> TRUE, v |-> [v EXCEPT !.progress = {}, !.sealed = FALSE],
                   Sealed |-> FALSE, Progress |-> 0]
             ELSE [ok |-> bad # "error", v |-> [v EXCEPT !.progress = {}],
                   Sealed |-> TRUE, Progress |-> 0]

\* POST /auth/token/create-orphan with the client's token.
VaultCreateOrphan(v, tok, id) ==
    IF v.initialized /\ ~v.sealed /\ tok \in v.tokens
    THEN [ok |-> TRUE, v |-> [v EXCEPT !.tokens = @ \cup {id}]]
    ELSE [ok |-> FALSE, v |-> v]

\* POST /auth/token/revoke-self with the client's token.
VaultRevokeSelf(v, tok) ==
    IF v.initialized /\ ~v.sealed /\ tok \in v.tokens
    THEN [ok |-> TRUE, v |-> [v EXCEPT !.tokens = @ \ {tok}]]
    ELSE [ok |-> FALSE, v |-> v]

\* vault.Sealed: on a failed request it returns (false, err).
Sealed(fault) ==
    IF fault THEN [sealed |-> FALSE, err |-> "error checking status"]
    ELSE [sealed |-> vlt.sealed, err |-> "nil"]

--------------------------------------------------------------------------
\* Initial states: any Config, a Vault that was never initialized, and a
\* keystore that is empty or holds one stale entry under a name Init probes.

InitialStores(c) ==
    {EmptyStore} \cup {Set(EmptyStore, ProbeKeys(c)[n], Stale) : n \in 1..Len(ProbeKeys(c))}

NoHist == [initOK |-> FALSE]

\* The initial states with the Config drawn from configs, the keystore
\* empty (clean) or any of InitialStores, and the Vault behind either seal.
InitWith(configs, clean) ==
    /\ cfg \in configs
    /\ pc = "new"
    /\ opName = "New"
    /\ err = "nil"
    /\ trace = <<>>
    /\ keyStore \in (IF clean THEN {EmptyStore} ELSE InitialStores(cfg))
    /\ token = EmptyStr
    /\ vlt \in {FreshVault(r) : r \in BOOLEAN}
    /\ i = 0
    /\ resp = NoResp
    /\ nonce = 0
    /\ args = NoArgs
    /\ rootToken = EmptyStr
    /\ extCfg = [policies |-> "unset"]
    /\ rekeyCfg = NoLoop
    /\ tick = NoTick
    /\ hist = NoHist

Init == InitWith(Configs, FALSE)

\* What a verb leaves alone unless it says otherwise.
Frame(changed) ==
    /\ (IF "cfg" \in changed THEN TRUE ELSE cfg' = cfg)
    /\ (IF "keyStore" \in changed THEN TRUE ELSE keyStore' = keyStore)
    /\ (IF "token" \in changed THEN TRUE ELSE token' = token)
    /\ (IF "vlt" \in changed THEN TRUE ELSE vlt' = vlt)
    /\ (IF "i" \in changed THEN TRUE ELSE i' = i)
    /\ (IF "resp" \in changed THEN TRUE ELSE resp' = resp)
    /\ (IF "nonce" \in changed THEN TRUE ELSE nonce' = nonce)
    /\ (IF "args" \in changed THEN TRUE ELSE args' = args)
    /\ (IF "rootToken" \in changed THEN TRUE ELSE rootToken' = rootToken)
    /\ (IF "extCfg" \in changed THEN TRUE ELSE extCfg' = extCfg)
    /\ (IF "rekeyCfg" \in changed THEN TRUE ELSE rekeyCfg' = rekeyCfg)
    /\ (IF "tick" \in changed THEN TRUE ELSE tick' = tick)
    /\ (IF "hist" \in changed THEN TRUE ELSE hist' = hist)
    /\ (IF "opName" \in changed THEN TRUE ELSE opName' = opName)

\* New: construction fails when the threshold exceeds the shares.
New_lenient ==
    /\ pc = "new"
    /\ pc' = "idle" /\ err' = "nil"
    /\ trace' = trace
    /\ Frame({})

New ==
    /\ pc = "new"
    /\ IF cfg.SecretShares < cfg.SecretThreshold
       THEN pc' = "failed" /\ err' = "the secret threshold can't be bigger than the shares"
       ELSE pc' = "idle" /\ err' = "nil"
    /\ trace' = trace
    /\ Frame({})

\* A verb has returned to its caller; its locals are gone.
Return ==
    /\ pc = "done"
    /\ pc' = "idle"
    /\ trace' = <<>>
    /\ err' = "nil"
    /\ i' = 0 /\ resp' = NoResp /\ nonce' = 0 /\ args' = NoArgs /\ tick' = NoTick
    /\ opName' = "none"
    /\ Frame({"i", "resp", "nonce", "args", "tick", "opName"})

--------------------------------------------------------------------------
\* Init

\* Init returns e.
InitDone(e) ==
    /\ pc' = "done"
    /\ err' = e
    /\ hist' = [hist EXCEPT !.initOK = @ \/ e = "nil"]

\* Lines 396-412: where Init goes once it knows whether Vault is initialized.
InitAfterStatus_testFirst(initialized, c) ==
    IF c.PreFlightChecks THEN "init_preflight"
    ELSE IF initialized THEN "return" ELSE "init_probe"
InitAfterStatus(initialized, c) ==
    IF initialized THEN "return"
    ELSE IF c.PreFlightChecks THEN "init_preflight" ELSE "init_probe"

\* Lines 391-410: the init-status query and the choice of the next step.
\* args keeps what the call started from: whether an earlier Init had
\* succeeded, whether Vault was initialized, and the keystore.
InitStatus ==
    /\ pc = "idle"
    /\ opName' = "Init"
    /\ args' = [kind |-> "Init", again |-> hist.initOK,
                initialized |-> vlt.initialized, before |-> keyStore]
    /\ \E fault \in BOOLEAN :
         /\ trace' = <<Ev("InitStatus", NoKey, 0, IF fault THEN "err" ELSE "ok")>>
         /\ IF fault THEN InitDone("error testing if vault is initialized") /\ i' = i
            ELSE IF InitAfterStatus(vlt.initialized, cfg) = "return"
            THEN InitDone("nil") /\ i' = i
            ELSE /\ pc' = InitAfterStatus(vlt.initialized, cfg)
                 /\ err' = "running"
                 /\ i' = 1
                 /\ hist' = hist
    /\ Frame({"opName", "args", "i", "hist"})

\* kvTester.Test: read the key, then write it with its own name as value.
kvTesterTest(key, getFault, setFault) ==
    LET g == Get(key, getFault)
    IN  IF g.err # "nil" /\ ~isNotFoundError(g.err)
        THEN [store |-> keyStore, err |-> g.err,
              calls |-> <<Ev("Get", key, 0, g.err)>>]
        ELSE IF setFault
        THEN [store |-> keyStore, err |-> "backend",
              calls |-> <<Ev("Get", key, 0, g.err), Ev("Set", key, 0, "err")>>]
        ELSE [store |-> Set(keyStore, key, key), err |-> "nil",
              calls |-> <<Ev("Get", key, 0, g.err), Ev("Set", key, 0, "ok")>>]

\* Lines 404-410.
InitPreFlight ==
    /\ pc = "init_preflight"
    /\ \E gf, sf \in BOOLEAN :
         LET t == kvTesterTest(keyTestField, gf, sf)
         IN  /\ trace' = trace \o t.calls
             /\ keyStore' = t.store
             /\ IF t.err # "nil"
                THEN InitDone("error testing keystore before init")
                ELSE pc' = "init_probe" /\ err' = err /\ hist' = hist
    /\ Frame({"keyStore", "hist"})

\* Lines 424-429: what Init makes of one probe's outcome.
ProbeVerdict(notFound, e) ==
    IF notFound /\ e # "nil" THEN "checking failed"
    ELSE IF ~notFound /\ e = "nil" THEN "already exists"
    ELSE "next"

\* Lines 412-430: one probe of the loop over the keys.
InitProbe ==
    /\ pc = "init_probe"
    /\ \E fault \in BOOLEAN :
         LET key == ProbeKeys(cfg)[i]
             nf == keyStoreNotFound(key, fault)
             verdict == ProbeVerdict(nf.notFound, nf.err)
         IN  /\ trace' = Append(trace, Ev("Get", key, 0, Get(key, fault).err))
             /\ IF verdict = "checking failed"
                THEN InitDone("error before init: checking key failed") /\ i' = i
                ELSE IF verdict = "already exists"
                THEN InitDone("error before init: value already exists") /\ i' = i
                ELSE /\ err' = err /\ hist' = hist
                     /\ IF i = Len(ProbeKeys(cfg))
                        THEN pc' = "init_vault" /\ i' = 1
                        ELSE pc' = pc /\ i' = i + 1
    /\ Frame({"i", "hist"})

\* Lines 432-452: seal status, the request, Vault's Init.
InitVault ==
    /\ pc = "init_vault"
    /\ \E sf, vf \in BOOLEAN :
         LET r == VaultInit(vlt, InitRequest(cfg, vlt.recovery))
         IN  IF sf
             THEN /\ trace' = Append(trace, Ev("SealStatus", NoKey, 0, "err"))
                  /\ InitDone("error getting seal status")
                  /\ vlt' = vlt /\ resp' = resp
             ELSE IF vf \/ ~r.ok
             THEN /\ trace' = trace \o <<Ev("SealStatus", NoKey, 0, "ok"),
                                        Ev("Init", NoKey, 0, "err")>>
                  /\ InitDone("error initializing vault")
                  /\ vlt' = vlt /\ resp' = resp
             ELSE /\ trace' = trace \o <<Ev("SealStatus", NoKey, 0, "ok"),
                                        Ev("Init", NoKey, 0, "ok")>>
                  /\ vlt' = r.v
                  /\ resp' = r.resp
                  /\ pc' = "init_store" /\ err' = err /\ hist' = hist
    /\ Frame({"vlt", "resp", "hist"})

\* Lines 454-472: the names and values Init stores, unseal keys first.
StoreList(r) ==
    [n \in 1..Len(r.Keys) |->
        [key |-> keyUnsealForID(n - 1), val |-> r.Keys[n],
         e |-> "error storing unseal key"]]
    \o [n \in 1..Len(r.RecoveryKeys) |->
        [key |-> keyRecoveryForID(n - 1), val |-> r.RecoveryKeys[n],
         e |-> "error storing recovery key"]]

\* The calls of one keyStoreSet.
SetCalls(key, getFault, s) ==
    <<Ev("Get", key, 0, Get(key, getFault).err)>>
    \o (IF s.set THEN <<Ev("Set", key, 0, IF s.err = "nil" THEN "ok" ELSE "err")>>
        ELSE <<>>)

\* Lines 454-472: one keyStoreSet of the two loops.
InitStoreKeys ==
    /\ pc = "init_store"
    /\ \E gf, sf \in BOOLEAN :
         LET item == StoreList(resp)[i]
             s == keyStoreSet(item.key, item.val, gf, sf)
         IN  /\ trace' = trace \o SetCalls(item.key, gf, s)
             /\ keyStore' = s.store
             /\ IF s.err # "nil"
                THEN InitDone(item.e) /\ i' = i
                ELSE /\ err' = err /\ hist' = hist
                     /\ IF i = Len(StoreList(resp))
                        THEN /\ i' = 0
                             /\ pc' = IF cfg.InitRootToken # EmptyStr
                                      THEN "init_wait" ELSE "init_root"
                        ELSE pc' = pc /\ i' = i + 1
    /\ Frame({"keyStore", "i", "hist"})

\* Lines 477-496: poll Sealed() until it says unsealed, then use the
\* returned root token.
InitWaitUnsealed ==
    /\ pc = "init_wait"
    /\ \E fault \in BOOLEAN :
         LET s == Sealed(fault)
         IN  IF ~s.sealed
             THEN /\ trace' = Append(trace, Ev("SealStatus", NoKey, 0,
                                               IF fault THEN "err" ELSE "ok"))
                  /\ token' = resp.RootToken
                  /\ pc' = "init_orphan"
             ELSE /\ trace' = trace /\ token' = token /\ pc' = pc
    /\ err' = err
    /\ Frame({"token"})

InitCreateOrphan_revokeAnyway ==
    /\ pc = "init_orphan"
    /\ \E fault \in BOOLEAN :
         LET r == VaultCreateOrphan(vlt, token, cfg.InitRootToken)
         IN  /\ trace' = Append(trace, Ev("CreateOrphan", NoKey, 0,
                                           IF fault \/ ~r.ok THEN "err" ELSE "ok"))
             /\ vlt' = IF fault THEN vlt ELSE r.v
             /\ pc' = "init_revoke" /\ err' = err /\ hist' = hist
    /\ Frame({"vlt", "hist"})

\* Lines 498-507.
InitCreateOrphan ==
    /\ pc = "init_orphan"
    /\ \E fault \in BOOLEAN :
         LET r == VaultCreateOrphan(vlt, token, cfg.InitRootToken)
         IN  IF fault \/ ~r.ok
             THEN /\ trace' = Append(trace, Ev("CreateOrphan", NoKey, 0, "err"))
                  /\ InitDone("unable to setup requested root token")
                  /\ vlt' = vlt
             ELSE /\ trace' = Append(trace, Ev("CreateOrphan", NoKey, 0, "ok"))
                  /\ vlt' = r.v
                  /\ pc' = "init_revoke" /\ err' = err /\ hist' = hist
    /\ Frame({"vlt", "hist"})

\* Lines 509-515.
InitRevoke ==
    /\ pc = "init_revoke"
    /\ \E fault \in BOOLEAN :
         LET r == VaultRevokeSelf(vlt, token)
         IN  IF fault \/ ~r.ok
             THEN /\ trace' = Append(trace, Ev("RevokeSelf", NoKey, 0, "err"))
                  /\ InitDone("unable to revoke temporary root token")
                  /\ vlt' = vlt
             ELSE /\ trace' = Append(trace, Ev("RevokeSelf", NoKey, 0, "ok"))
                  /\ vlt' = r.v
                  /\ pc' = "init_root" /\ err' = err /\ hist' = hist
    /\ Frame({"vlt", "hist"})

\* Lines 518-527.
InitStoreRoot ==
    /\ pc = "init_root"
    /\ IF cfg.StoreRootToken
       THEN \E gf, sf \in BOOLEAN :
              LET s == keyStoreSet(keyRootToken, resp.RootToken, gf, sf)
              IN  /\ trace' = trace \o SetCalls(keyRootToken, gf, s)
                  /\ keyStore' = s.store
                  /\ InitDone(IF s.err # "nil" THEN "error storing root token" ELSE "nil")
       ELSE trace' = trace /\ keyStore' = keyStore /\ InitDone("nil")
    /\ Frame({"keyStore", "hist"})

--------------------------------------------------------------------------
\* Unseal

Unseal ==
    /\ pc = "idle"
    /\ opName' = "Unseal"
    /\ pc' = "unseal" /\ err' = "running"
    /\ i' = 0
    /\ trace' = <<>>
    /\ Frame({"opName", "i"})

\* Lines 214-223: what Unseal makes of Vault's response.
UnsealOutcome_anyProgress(r) == IF ~r.Sealed THEN "unsealed" ELSE "progress"
UnsealOutcome(r) ==
    IF ~r.Sealed THEN "unsealed"
    ELSE IF r.Progress = 0 THEN "progress0" ELSE "progress"

\* Lines 200-225: one round of the loop.
UnsealStep ==
    /\ pc = "unseal"
    /\ \E gf, vf \in BOOLEAN, bad \in {"error", "progress0"} :
         LET keyID == keyUnsealForID(i)
             g == Get(keyID, gf)
             r == VaultUnseal(vlt, g.val, bad)
         IN  IF g.err # "nil"
             THEN /\ trace' = Append(trace, Ev("Get", keyID, 0, g.err))
                  /\ pc' = "done" /\ err' = "unable to get key"
                  /\ vlt' = vlt /\ i' = i
             ELSE IF vf \/ ~r.ok
             THEN /\ trace' = trace \o <<Ev("Get", keyID, 0, "nil"),
                                        Ev("Unseal", keyID, 0, "err")>>
                  /\ pc' = "done" /\ err' = "fail to send unseal request to vault"
                  /\ vlt' = (IF vf THEN vlt ELSE r.v) /\ i' = i
             ELSE /\ vlt' = r.v
                  /\ trace' = trace \o
                       <<Ev("Get", keyID, 0, "nil"),
                         Ev("Unseal", keyID, 0,
                            IF ~r.Sealed THEN "unsealed"
                            ELSE IF r.Progress = 0 THEN "progress0" ELSE "progress")>>
                  /\ IF UnsealOutcome(r) = "unsealed"
                     THEN pc' = "done" /\ err' = "nil" /\ i' = i
                     ELSE IF UnsealOutcome(r) = "progress0"
                     THEN pc' = "done" /\ err' = "failed to unseal vault" /\ i' = i
                     ELSE pc' = pc /\ err' = err /\ i' = i + 1
    /\ Frame({"vlt", "i"})

--------------------------------------------------------------------------
\* Recipients and the Keybase fetcher

kbPrefix == "keybase:"

\* A recipient is the sequence of its parts: <<"keybase:", "alice">> is
\* "keybase:alice" and <<"carol">> is "carol".
alice == <<kbPrefix, "alice">>
bob == <<kbPrefix, "bob">>
carol == <<"carol">>

\* The recipient lists Rekey, NewUnsealKeysExists and the rekey command are
\* called with.
RecipientLists ==
    {<<>>, <<alice>>, <<carol>>, <<alice, bob>>, <<alice, carol>>, <<carol, bob>>}

HasPrefix(r) == Len(r) > 0 /\ r[1] = kbPrefix
TrimPrefix(r) == IF HasPrefix(r) THEN Tail(r) ELSE r

PubKey(user) == <<"pub", user>>
Encrypted(pgpKey, plain) == <<"pgp", pgpKey, plain>>

\* Lines 849-854: the usernames of the entries that carry the prefix.
Usernames(input) ==
    LET kept == SelectSeq(input, HasPrefix)
    IN  [n \in 1..Len(kept) |-> TrimPrefix(kept[n])]

\* FetchKeybasePubkeys: no request is made for an empty list of usernames;
\* a request either fails (outcome "err": transport, non-OK status, a
\* missing or malformed bundle) or yields one key per username, in order.
FetchKeybasePubkeys(input, outcome) ==
    IF Len(input) = 0 THEN [keys |-> <<>>, err |-> "nil"]
    ELSE IF Len(Usernames(input)) = 0 THEN [keys |-> <<>>, err |-> "nil"]
    ELSE IF outcome = "err" THEN [keys |-> <<>>, err |-> "keybase"]
    ELSE [keys |-> [n \in 1..Len(Usernames(input)) |-> B64(PubKey(Usernames(input)[n]))],
          err |-> "nil"]

--------------------------------------------------------------------------
\* The Vault server's rekey endpoints

VaultRekeyStatus(v) == [Started |-> v.rekey.started, Nonce |-> v.rekey.nonce]

\* PUT /sys/rekey/init.  Vault wants no PGP key or one per share, and an
\* unsealed barrier that is not behind a recovery seal.  The nonce names the
\* key generation the rekey starts from.
VaultRekeyInit(v, req) ==
    IF /\ v.initialized /\ ~v.sealed /\ ~v.recovery /\ ~v.rekey.started
       /\ req.SecretThreshold <= req.SecretShares
       /\ Len(req.PGPKeys) \in {0, req.SecretShares}
    THEN LET n == v.gen
         IN  [ok |-> TRUE, Nonce |-> n,
              v |-> [v EXCEPT !.rekey = [started |-> TRUE, nonce |-> n,
                                         pgp |-> req.PGPKeys, shares |-> req.SecretShares,
                                         threshold |-> req.SecretThreshold,
                                         progress |-> {}]]]
    ELSE [ok |-> FALSE, Nonce |-> 0, v |-> v]

\* The new shares of a completed rekey, as Vault returns them in KeysB64.
NewKeysB64(v) ==
    [n \in 1..v.rekey.shares |->
        B64(IF Len(v.rekey.pgp) = 0 THEN Share(v.gen + 1, n - 1)
            ELSE Encrypted(v.rekey.pgp[n], Share(v.gen + 1, n - 1)))]

\* PUT /sys/rekey/update.
VaultRekeyUpdate(v, key, n) ==
    IF ~(v.initialized /\ ~v.sealed /\ v.rekey.started /\ n = v.rekey.nonce)
    THEN [ok |-> FALSE, v |-> v, Complete |-> FALSE, KeysB64 |-> <<>>]
    ELSE LET p == v.rekey.progress \cup {key}
         IN  IF Cardinality(p) < v.threshold
             THEN [ok |-> TRUE, v |-> [v EXCEPT !.rekey.progress = p],
                   Complete |-> FALSE, KeysB64 |-> <<>>]
             ELSE IF p \subseteq ValidShares(v)
             THEN [ok |-> TRUE,
                   v |-> [v EXCEPT !.gen = @ + 1, !.shares = v.rekey.shares,
                                   !.threshold = v.rekey.threshold, !.rekey = NoRekey],
                   Complete |-> TRUE, KeysB64 |-> NewKeysB64(v)]
             ELSE [ok |-> FALSE, v |-> [v EXCEPT !.rekey.progress = {}],
                   Complete |-> FALSE, KeysB64 |-> <<>>]

\* DELETE /sys/rekey/init.
VaultRekeyCancel(v) ==
    IF v.initialized /\ ~v.sealed
    THEN [ok |-> TRUE, v |-> [v EXCEPT !.rekey = NoRekey]]
    ELSE [ok |-> FALSE, v |-> v]

--------------------------------------------------------------------------
\* NewUnsealKeysExists

\* Line 350 (and 234): the name a recipient's share is stored under.
pgpUnsealKeyID_plain(name, n) == keyUnsealForID(n)
pgpUnsealKeyID(name, n) == <<name, "-", keyUnsealForID(n)>>

\* Lines 228-239: [exists, err, calls].
NewUnsealKeysExists_last(pgpKeys, fault) ==
    IF Len(pgpKeys) = 0 THEN [exists |-> FALSE, err |-> "nil", calls |-> <<>>]
    ELSE LET key == pgpUnsealKeyID(pgpKeys[Len(pgpKeys)], Len(pgpKeys) - 1)
             nf == keyStoreNotFound(key, fault)
         IN  IF nf.err # "nil"
             THEN [exists |-> FALSE, err |-> "error checking key existence",
                   calls |-> <<Ev("Get", key, 0, Get(key, fault).err)>>]
             ELSE [exists |-> ~nf.notFound, err |-> "nil",
                   calls |-> <<Ev("Get", key, 0, Get(key, fault).err)>>]

NewUnsealKeysExists_any(pgpKeys, fault) ==
    LET hit == {n \in 1..Len(pgpKeys) : pgpUnsealKeyID(pgpKeys[n], n - 1) \in DOMAIN keyStore}
    IN  [exists |-> hit # {}, err |-> "nil",
         calls |-> [n \in 1..Len(pgpKeys) |->
                      Ev("Get", pgpUnsealKeyID(pgpKeys[n], n - 1), 0, "nil")]]
NewUnsealKeysExists(pgpKeys, fault) ==
    IF Len(pgpKeys) = 0 THEN [exists |-> FALSE, err |-> "nil", calls |-> <<>>]
    ELSE LET key == pgpUnsealKeyID(pgpKeys[1], 0)
             nf == keyStoreNotFound(key, fault)
         IN  IF nf.err # "nil"
             THEN [exists |-> FALSE, err |-> "error checking key existence",
                   calls |-> <<Ev("Get", key, 0, Get(key, fault).err)>>]
             ELSE [exists |-> ~nf.notFound, err |-> "nil",
                   calls |-> <<Ev("Get", key, 0, Get(key, fault).err)>>]

\* A caller asks whether the new unseal keys exist.
CheckNewUnsealKeys ==
    /\ pc = "idle"
    /\ opName' = "NewUnsealKeysExists"
    /\ \E pgpKeys \in RecipientLists, fault \in BOOLEAN :
         LET r == NewUnsealKeysExists(pgpKeys, fault)
         IN  /\ args' = [kind |-> "NewUnsealKeysExists", pgpKeys |-> pgpKeys]
             /\ resp' = [kind |-> "exists", exists |-> r.exists]
             /\ trace' = r.calls
             /\ err' = r.err
    /\ pc' = "done"
    /\ Frame({"opName", "args", "resp"})

--------------------------------------------------------------------------
\* Rekey

\* Rekey returns e: to its caller, or into the rekey command, which exits
\* on an error and sleeps after a success.
RekeyDone(e) ==
    /\ err' = e
    /\ IF tick.active
       THEN IF e = "nil" THEN pc' = "sleep" /\ rekeyCfg' = rekeyCfg
            ELSE pc' = "done" /\ rekeyCfg' = NoLoop
       ELSE pc' = "done" /\ rekeyCfg' = rekeyCfg

\* Lines 241-260: the argument check and the rekey status query.  args keeps
\* the keystore the call started from.
RekeyBegin(pgpKeys, tr) ==
    /\ opName' = "Rekey"
    /\ IF Len(pgpKeys) = 0
       THEN /\ trace' = tr
            /\ RekeyDone("no PGP keys provided for rekey operation")
            /\ args' = [kind |-> "Rekey", pgpKeys |-> pgpKeys, before |-> keyStore]
       ELSE \E fault \in BOOLEAN :
              IF fault
              THEN /\ trace' = Append(tr, Ev("RekeyStatus", NoKey, 0, "err"))
                   /\ RekeyDone("unable to check rekey status")
                   /\ args' = [kind |-> "Rekey", pgpKeys |-> pgpKeys,
                               before |-> keyStore]
              ELSE /\ trace' = Append(tr, Ev("RekeyStatus", NoKey, 0, "ok"))
                   /\ args' = [kind |-> "Rekey", pgpKeys |-> pgpKeys,
                               before |-> keyStore,
                               respStatus |-> VaultRekeyStatus(vlt),
                               keybaseKeys |-> <<>>, inited |-> FALSE]
                   /\ pc' = "rekey_fetch" /\ err' = "running"
                   /\ rekeyCfg' = rekeyCfg

Rekey ==
    /\ pc = "idle"
    /\ \E pgpKeys \in RecipientLists : RekeyBegin(pgpKeys, <<>>)
    /\ Frame({"opName", "args", "rekeyCfg"})

\* Lines 262-278: fetch the keys; adopt the nonce of a rekey in progress.
RekeyFetch_alwaysInit ==
    /\ pc = "rekey_fetch"
    /\ \E outcome \in {"ok", "err"} :
         LET f == FetchKeybasePubkeys(args.pgpKeys, outcome)
         IN  IF f.err # "nil"
             THEN /\ RekeyDone("unable to fetch Keybase PGP keys")
                  /\ args' = args /\ nonce' = nonce /\ i' = i
             ELSE /\ args' = [args EXCEPT !.keybaseKeys = f.keys]
                  /\ err' = err /\ rekeyCfg' = rekeyCfg
                  /\ pc' = "rekey_init" /\ nonce' = nonce /\ i' = i
    /\ trace' = trace
    /\ Frame({"args", "nonce", "i", "rekeyCfg"})

RekeyFetch ==
    /\ pc = "rekey_fetch"
    /\ \E outcome \in {"ok", "err"} :
         LET f == FetchKeybasePubkeys(args.pgpKeys, outcome)
         IN  IF f.err # "nil"
             THEN /\ RekeyDone("unable to fetch Keybase PGP keys")
                  /\ args' = args /\ nonce' = nonce /\ i' = i
             ELSE /\ args' = [args EXCEPT !.keybaseKeys = f.keys]
                  /\ err' = err /\ rekeyCfg' = rekeyCfg
                  /\ IF ~args.respStatus.Started
                     THEN pc' = "rekey_init" /\ nonce' = nonce /\ i' = i
                     ELSE /\ pc' = "rekey_update"
                          /\ nonce' = args.respStatus.Nonce
                          /\ i' = 0
    /\ trace' = trace
    /\ Frame({"args", "nonce", "i", "rekeyCfg"})

\* Lines 291-295.
RekeyInitRequest(c, pgpKeys) ==
    [SecretShares |-> c.SecretShares, SecretThreshold |-> c.SecretThreshold,
     PGPKeys |-> pgpKeys]

\* Lines 290-313: initializeRekey.  Vault may answer without a nonce.
initializeRekey ==
    /\ pc = "rekey_init"
    /\ \E outcome \in {"ok", "err", "no nonce"} :
         LET r == VaultRekeyInit(vlt, RekeyInitRequest(cfg, args.keybaseKeys))
         IN  IF outcome = "err" \/ ~r.ok
             THEN /\ trace' = Append(trace, Ev("RekeyInit", NoKey, 0, "err"))
                  /\ RekeyDone("unable to start rekey init process")
                  /\ vlt' = vlt /\ nonce' = nonce /\ i' = i /\ args' = args
             ELSE IF outcome = "no nonce"
             THEN /\ trace' = Append(trace, Ev("RekeyInit", NoKey, 0, "no nonce"))
                  /\ RekeyDone("failed to init rekey operation: empty nonce returned")
                  /\ vlt' = vlt /\ nonce' = nonce /\ i' = i /\ args' = args
             ELSE /\ trace' = Append(trace, Ev("RekeyInit", NoKey, r.Nonce, "ok"))
                  /\ vlt' = r.v
                  /\ nonce' = r.Nonce
                  /\ args' = [args EXCEPT !.inited = TRUE]
                  /\ i' = 0
                  /\ pc' = "rekey_update" /\ err' = err /\ rekeyCfg' = rekeyCfg
    /\ Frame({"vlt", "nonce", "i", "args", "rekeyCfg"})

\* Lines 326-335: what sendRekeyUpdates does when RekeyUpdate failed: the
\* calls it adds and the Vault afterwards.
CancelAfterUpdateError_never(v, cancelFault) == [calls |-> <<>>, v |-> v]
CancelAfterUpdateError(v, cancelFault) ==
    LET c == VaultRekeyCancel(v)
    IN  IF cancelFault \/ ~c.ok
        THEN [calls |-> <<Ev("RekeyCancel", NoKey, 0, "err")>>, v |-> v]
        ELSE [calls |-> <<Ev("RekeyCancel", NoKey, 0, "ok")>>, v |-> c.v]

\* Lines 315-344: one round of sendRekeyUpdates.
sendRekeyUpdates ==
    /\ pc = "rekey_update"
    /\ \E gf, vf, cf \in BOOLEAN :
         LET keyID == keyUnsealForID(i)
             g == Get(keyID, gf)
             r == VaultRekeyUpdate(vlt, g.val, nonce)
             c == CancelAfterUpdateError(IF vf THEN vlt ELSE r.v, cf)
         IN  IF g.err # "nil"
             THEN /\ trace' = Append(trace, Ev("Get", keyID, 0, g.err))
                  /\ RekeyDone("unable to get key")
                  /\ vlt' = vlt /\ i' = i /\ resp' = resp
             ELSE IF vf \/ ~r.ok
             THEN /\ trace' = trace \o <<Ev("Get", keyID, 0, "nil"),
                                        Ev("RekeyUpdate", keyID, nonce, "err")>> \o c.calls
                  /\ RekeyDone("failed to send rekey update request to vault")
                  /\ vlt' = c.v /\ i' = i /\ resp' = resp
             ELSE /\ trace' = trace \o
                       <<Ev("Get", keyID, 0, "nil"),
                         Ev("RekeyUpdate", keyID, nonce,
                            IF r.Complete THEN "complete" ELSE "progress")>>
                  /\ vlt' = r.v
                  /\ err' = err /\ rekeyCfg' = rekeyCfg
                  /\ IF r.Complete
                     THEN /\ resp' = [kind |-> "rekey", KeysB64 |-> r.KeysB64]
                          /\ i' = 0
                          /\ pc' = "rekey_finish"
                     ELSE resp' = resp /\ i' = i + 1 /\ pc' = pc
    /\ Frame({"vlt", "i", "resp", "rekeyCfg"})

\* Lines 370-376: keyPGPSet stores the base64-decoded value.
keyPGPSet(key, val, setFault) ==
    LET d == B64Decode(val)
    IN  IF ~d.ok THEN [store |-> keyStore, err |-> "error setting data", set |-> FALSE]
        ELSE IF setFault THEN [store |-> keyStore, err |-> "backend", set |-> TRUE]
        ELSE [store |-> Set(keyStore, key, d.val), err |-> "nil", set |-> TRUE]

\* Lines 346-359: one round of finishRekey's loop over resp.KeysB64.  An
\* index past the end of pgpKeyNames panics.
finishRekey ==
    /\ pc = "rekey_finish"
    /\ IF i >= Len(args.pgpKeys)
       THEN /\ trace' = trace /\ keyStore' = keyStore /\ i' = i
            /\ RekeyDone("panic: index out of range")
       ELSE \E sf \in BOOLEAN :
              LET keyID == pgpUnsealKeyID(args.pgpKeys[i + 1], i)
                  s == keyPGPSet(keyID, resp.KeysB64[i + 1], sf)
              IN  /\ trace' = trace \o
                        (IF s.set
                         THEN <<Ev("Set", keyID, 0, IF s.err = "nil" THEN "ok" ELSE "err")>>
                         ELSE <<>>)
                  /\ keyStore' = s.store
                  /\ IF s.err # "nil"
                     THEN RekeyDone("error storing unseal key") /\ i' = i
                     ELSE IF i + 1 = Len(resp.KeysB64)
                     THEN RekeyDone("nil") /\ i' = i
                     ELSE pc' = pc /\ err' = err /\ rekeyCfg' = rekeyCfg /\ i' = i + 1
    /\ Frame({"keyStore", "i", "rekeyCfg"})

--------------------------------------------------------------------------
\* The rekey command (rekeyCmd.Run, part_001): its loop, one tick at a time

\* Lines 52-75: the command starts with its recipients, strings.Split of
\* the pgp-keys flag, which is never an empty list.
rekeyCmdRun ==
    /\ pc = "idle"
    /\ \E pgpKeys \in RecipientLists \ {<<>>} : rekeyCfg' = pgpKeys
    /\ pc' = "loop"
    /\ opName' = "rekey command"
    /\ err' = "running"
    /\ trace' = <<>>
    /\ Frame({"rekeyCfg", "opName"})

\* Lines 77-81: rekey() is called when newKeysNotExists() says so.
TickAfterCheck_always(exists) == "loop_rekey"
TickAfterCheck(exists) == IF ~exists THEN "loop_rekey" ELSE "sleep"

\* Lines 86-94 and 77: the tick asks whether the new keys exist; an error
\* ends the process.
newKeysNotExists ==
    /\ pc = "loop"
    /\ \E fault \in BOOLEAN :
         LET r == NewUnsealKeysExists(rekeyCfg, fault)
         IN  /\ trace' = r.calls
             /\ IF r.err # "nil"
                THEN /\ pc' = "done" /\ err' = "exit 1: error checking if unseal keys already exist"
                     /\ rekeyCfg' = NoLoop
                     /\ tick' = [NoTick EXCEPT !.active = TRUE, !.exists = "error"]
                ELSE /\ err' = "running" /\ rekeyCfg' = rekeyCfg
                     /\ tick' = [NoTick EXCEPT !.active = TRUE, !.exists = IF r.exists THEN "true" ELSE "false"]
                     /\ pc' = TickAfterCheck(r.exists)
    /\ Frame({"rekeyCfg", "tick"})

\* Lines 96-115: rekey asks whether Vault is sealed and rekeys when it is not.
rekey ==
    /\ pc = "loop_rekey"
    /\ \E fault \in BOOLEAN :
         LET s == Sealed(fault)
             tr == Append(trace, Ev("SealStatus", NoKey, 0, IF fault THEN "err" ELSE "ok"))
         IN  IF s.err # "nil"
             THEN /\ pc' = "done" /\ err' = "exit 1: error checking if vault is sealed"
                  /\ rekeyCfg' = NoLoop
                  /\ tick' = [tick EXCEPT !.sealed = "error"]
                  /\ trace' = tr /\ args' = args /\ opName' = opName
             ELSE IF s.sealed
             THEN /\ pc' = "sleep" /\ err' = err /\ rekeyCfg' = rekeyCfg
                  /\ tick' = [tick EXCEPT !.sealed = "true"]
                  /\ trace' = tr /\ args' = args /\ opName' = opName
             ELSE /\ tick' = [tick EXCEPT !.sealed = "false", !.rekey = TRUE]
                  /\ RekeyBegin(rekeyCfg, tr)
    /\ Frame({"rekeyCfg", "tick", "args", "opName"})

\* Line 81: the retry period is over, the next tick starts.
Sleep ==
    /\ pc = "sleep"
    /\ pc' = "loop"
    /\ trace' = <<>> /\ err' = "running"
    /\ i' = 0 /\ resp' = NoResp /\ nonce' = 0 /\ args' = NoArgs /\ tick' = NoTick
    /\ opName' = "rekey command"
    /\ Frame({"i", "resp", "nonce", "args", "tick", "opName"})

\* The rekey command is stopped from outside while it sleeps.
Stop ==
    /\ pc = "sleep"
    /\ pc' = "idle"
    /\ rekeyCfg' = NoLoop
    /\ trace' = <<>> /\ err' = "nil"
    /\ i' = 0 /\ resp' = NoResp /\ nonce' = 0 /\ args' = NoArgs /\ tick' = NoTick
    /\ opName' = "none"
    /\ Frame({"i", "resp", "nonce", "args", "tick", "opName", "rekeyCfg"})

--------------------------------------------------------------------------
\* XOR codec and the encodings of the generate-root protocol

RawB64(x) == <<"b64raw", x>>
RawB64Decode(s) ==
    IF s[1] = "b64raw" THEN [ok |-> TRUE, val |-> s[2]] ELSE [ok |-> FALSE, val |-> EmptyStr]

\* a ^ b on two bytes, bit by bit.
RECURSIVE XorBits(_, _, _)
XorBits(a, b, bits) ==
    IF bits = 0 THEN 0
    ELSE (((a % 2) + (b % 2)) % 2) + 2 * XorBits(a \div 2, b \div 2, bits - 1)

ByteBits == 8

XORBytes_add(a, b) ==
    IF Len(a) # Len(b) THEN [ok |-> FALSE, val |-> <<>>]
    ELSE [ok |-> TRUE, val |-> [n \in 1..Len(a) |-> (a[n] + b[n]) % 256]]

\* XORBytes on the bytes of two strings: an error when the lengths differ.
XORBytes(a, b) ==
    IF Len(a) # Len(b) THEN [ok |-> FALSE, val |-> <<>>]
    ELSE [ok |-> TRUE, val |-> [n \in 1..Len(a) |-> XorBits(a[n], b[n], ByteBits)]]

\* XORBase64: both arguments are base64 text of non-empty bytes.
XORBase64(a, b) ==
    LET da == B64Decode(a)
        db == B64Decode(b)
    IN  IF ~da.ok \/ da.val[2] = <<>> THEN [ok |-> FALSE, val |-> <<>>]
        ELSE IF ~db.ok \/ db.val[2] = <<>> THEN [ok |-> FALSE, val |-> <<>>]
        ELSE XORBytes(da.val[2], db.val[2])

\* The bytes of the root token a generate-root yields, and the one-time
\* pads Vault may draw for it.
GenRootBytes == <<2, 1>>
OTPs == {<<1, 2>>, <<3, 0>>}

\* uuid.FormatUUID: the text form of a buffer of the UUID length.
FormatUUID(buf) ==
    IF Len(buf) # Len(GenRootBytes) THEN [ok |-> FALSE, val |-> EmptyStr]
    ELSE [ok |-> TRUE, val |-> <<"uuid", buf>>]

--------------------------------------------------------------------------
\* The Vault server's generate-root endpoints

\* The shares that unlock a generate-root: recovery shares behind a recovery
\* seal, unseal shares otherwise.
RootShares(v) ==
    IF v.recovery THEN {RecoveryShare(n) : n \in 0..(v.shares - 1)} ELSE ValidShares(v)

\* DELETE /sys/generate-root/attempt.
VaultGenerateRootCancel(v) ==
    IF v.initialized /\ ~v.sealed
    THEN [ok |-> TRUE, v |-> [v EXCEPT !.genroot = NoGenRoot]]
    ELSE [ok |-> FALSE, v |-> v]

\* PUT /sys/generate-root/attempt with no OTP and no PGP key: Vault draws
\* the pad.  A legacy server hands it out as base64 text and reports
\* OTPLength 0.
VaultGenerateRootInit(v, otp, legacy) ==
    IF v.initialized /\ ~v.sealed /\ ~v.genroot.started
    THEN [ok |-> TRUE,
          v |-> [v EXCEPT !.genroot = [started |-> TRUE, nonce |-> v.gen, otp |-> otp,
                                       legacy |-> legacy, progress |-> {}]],
          OTP |-> IF legacy THEN B64(Tok(otp)) ELSE Tok(otp),
          OTPLength |-> IF legacy THEN 0 ELSE Len(otp),
          Nonce |-> v.gen,
          Required |-> v.threshold]
    ELSE [ok |-> FALSE, v |-> v, OTP |-> EmptyStr, OTPLength |-> 0, Nonce |-> 0,
          Required |-> 0]

\* PUT /sys/generate-root/update.
VaultGenerateRootUpdate(v, key, n) ==
    IF ~(v.initialized /\ ~v.sealed /\ v.genroot.started /\ n = v.genroot.nonce)
    THEN [ok |-> FALSE, v |-> v, Complete |-> FALSE, EncodedRootToken |-> EmptyStr]
    ELSE LET p == v.genroot.progress \cup {key}
             masked == XORBytes(GenRootBytes, v.genroot.otp).val
         IN  IF Cardinality(p) < v.threshold
             THEN [ok |-> TRUE, v |-> [v EXCEPT !.genroot.progress = p],
                   Complete |-> FALSE, EncodedRootToken |-> EmptyStr]
             ELSE IF p \subseteq RootShares(v)
             THEN [ok |-> TRUE,
                   v |-> [v EXCEPT !.genroot = NoGenRoot,
                                   !.tokens = @ \cup {IF v.genroot.legacy
                                                      THEN <<"uuid", GenRootBytes>>
                                                      ELSE Tok(GenRootBytes)}],
                   Complete |-> TRUE,
                   EncodedRootToken |-> IF v.genroot.legacy THEN B64(Tok(masked))
                                        ELSE RawB64(Tok(masked))]
             ELSE [ok |-> FALSE, v |-> [v EXCEPT !.genroot.progress = {}],
                   Complete |-> FALSE, EncodedRootToken |-> EmptyStr]

--------------------------------------------------------------------------
\* Configure

\* The configuration maps Configure is called with: a policies section or
\* none, and possibly a field externalConfig does not know.
ConfigInputs == [unknown : BOOLEAN, policies : {"absent", "p1"}]

\* Lines 701-723: the input decoded onto the copy of v.externalConfig.
Decode_lenient(current, config) ==
    [ok |-> TRUE,
     val |-> [policies |-> IF config.policies = "absent" THEN current.policies
                           ELSE config.policies]]

Decode(current, config) ==
    IF config.unknown THEN [ok |-> FALSE, val |-> current]
    ELSE [ok |-> TRUE,
          val |-> [policies |-> IF config.policies = "absent" THEN current.policies
                                ELSE config.policies]]

\* Lines 725-751: the sub-configurators in the order Configure calls them.
Stages ==
    <<"configureAuditDevices", "configureAuthMethods", "configureIdentityGroups",
      "configurePlugins", "configurePolicies", "configureSecretsEngines",
      "configureStartupSecrets">>

\* The error Configure returns when the sub-configurator of that number fails.
StageErrors ==
    <<"error configuring audit devices for vault",
      "error configuring auth methods for vault",
      "error writing groups configurations for vault",
      "error configuring plugins for vault",
      "error configuring policies for vault",
      "error configuring secret engines for vault",
      "error writing startup secrets to vault">>

\* Lines 696-699: the deferred calls, run when Configure returns after it
\* has registered them.
Deferred ==
    /\ token' = EmptyStr
    /\ rootToken' = EmptyStr

\* Lines 600-636: the root token from the keystore, or the start of a
\* generate-root.
Configure ==
    /\ pc = "idle"
    /\ opName' = "Configure"
    /\ \E config \in ConfigInputs, f1, f2, f3 \in BOOLEAN, otp \in OTPs, legacy \in BOOLEAN :
         IF cfg.StoreRootToken
         THEN LET g == Get(keyRootToken, f1)
              IN  /\ trace' = <<Ev("Get", keyRootToken, 0, g.err)>>
                  /\ args' = [kind |-> "Configure", config |-> config, before |-> token]
                  /\ vlt' = vlt /\ nonce' = nonce /\ i' = i
                  /\ IF g.err # "nil"
                     THEN pc' = "done" /\ err' = "unable to get key" /\ token' = token
                     ELSE pc' = "cfg_decode" /\ err' = "running" /\ token' = g.val
         ELSE LET c == VaultGenerateRootCancel(vlt)
                  r == VaultGenerateRootInit(c.v, otp, legacy)
              IN  /\ token' = token
                  /\ IF f1 \/ ~c.ok
                     THEN /\ trace' = <<Ev("GenerateRootCancel", NoKey, 0, "err")>>
                          /\ pc' = "done"
                          /\ err' = "unable to cancel generate root token process"
                          /\ vlt' = vlt /\ nonce' = nonce /\ i' = i
                          /\ args' = [kind |-> "Configure", config |-> config,
                                      before |-> token]
                     ELSE IF f2 \/ ~r.ok
                     THEN /\ trace' = <<Ev("GenerateRootCancel", NoKey, 0, "ok"),
                                        Ev("GenerateRootInit", NoKey, 0, "err")>>
                          /\ pc' = "done"
                          /\ err' = "unable to initiate generate-root token process"
                          /\ vlt' = c.v /\ nonce' = nonce /\ i' = i
                          /\ args' = [kind |-> "Configure", config |-> config,
                                      before |-> token]
                     ELSE /\ vlt' = r.v
                          /\ args' = [kind |-> "Configure", config |-> config,
                                      before |-> token, OTP |-> r.OTP,
                                      OTPLength |-> r.OTPLength, Required |-> r.Required,
                                      RecoverySeal |-> vlt.recovery]
                          /\ IF f3
                             THEN /\ trace' = <<Ev("GenerateRootCancel", NoKey, 0, "ok"),
                                                Ev("GenerateRootInit", NoKey, r.Nonce, "ok"),
                                                Ev("SealStatus", NoKey, 0, "err")>>
                                  /\ pc' = "done" /\ err' = "error getting seal status"
                                  /\ nonce' = nonce /\ i' = i
                             ELSE /\ trace' = <<Ev("GenerateRootCancel", NoKey, 0, "ok"),
                                                Ev("GenerateRootInit", NoKey, r.Nonce, "ok"),
                                                Ev("SealStatus", NoKey, 0, "ok")>>
                                  /\ pc' = "cfg_genroot" /\ err' = "running"
                                  /\ nonce' = r.Nonce /\ i' = 0
    /\ rootToken' = EmptyStr
    /\ Frame({"opName", "args", "vlt", "nonce", "i", "token", "rootToken"})

\* Lines 656-685: the root token out of a Complete response.
DecodeRootToken(encoded, otp, otpLength) ==
    IF otpLength = 0
    THEN LET x == XORBase64(encoded, otp)
             u == FormatUUID(x.val)
         IN  IF ~x.ok THEN [ok |-> FALSE, val |-> EmptyStr, e |-> "error xoring encoded root token"]
             ELSE IF ~u.ok
             THEN [ok |-> FALSE, val |-> EmptyStr,
                   e |-> "error formatting base64 encoded root token"]
             ELSE [ok |-> TRUE, val |-> u.val, e |-> "nil"]
    ELSE LET d == RawB64Decode(encoded)
             x == XORBytes(d.val[2], otp[2])
         IN  IF ~d.ok
             THEN [ok |-> FALSE, val |-> EmptyStr,
                   e |-> "error decoding base64 encoded root token"]
             ELSE IF ~x.ok
             THEN [ok |-> FALSE, val |-> EmptyStr, e |-> "error xoring encoded root token"]
             ELSE [ok |-> TRUE, val |-> Tok(x.val), e |-> "nil"]

\* A generate-root update that Vault accepts and answers with Complete=false
\* whatever the number of shares it has: the Required that GenerateRootInit
\* reported is not a promise that the Required-th share completes.
VaultGenerateRootShort(v, key, n) ==
    IF ~(v.initialized /\ ~v.sealed /\ v.genroot.started /\ n = v.genroot.nonce)
    THEN [ok |-> FALSE, v |-> v, Complete |-> FALSE, EncodedRootToken |-> EmptyStr]
    ELSE [ok |-> TRUE, v |-> [v EXCEPT !.genroot.progress = @ \cup {key}],
          Complete |-> FALSE, EncodedRootToken |-> EmptyStr]

\* Lines 637-693: one round of the loop over the Required keys.
ConfigureGenerateRoot ==
    /\ pc = "cfg_genroot"
    /\ IF i >= args.Required
       THEN /\ pc' = "cfg_decode" /\ err' = err /\ trace' = trace
            /\ vlt' = vlt /\ i' = i /\ token' = token /\ rootToken' = rootToken
       ELSE \E gf, vf, short \in BOOLEAN :
              LET keyID == IF args.RecoverySeal THEN keyRecoveryForID(i)
                           ELSE keyUnsealForID(i)
                  g == Get(keyID, gf)
                  r == IF short THEN VaultGenerateRootShort(vlt, g.val, nonce)
                       ELSE VaultGenerateRootUpdate(vlt, g.val, nonce)
                  d == DecodeRootToken(r.EncodedRootToken, args.OTP, args.OTPLength)
              IN  IF g.err # "nil"
                  THEN /\ trace' = Append(trace, Ev("Get", keyID, 0, g.err))
                       /\ pc' = "done" /\ err' = "unable to get key"
                       /\ vlt' = vlt /\ i' = i /\ token' = token /\ rootToken' = rootToken
                  ELSE IF vf \/ ~r.ok
                  THEN /\ trace' = trace \o <<Ev("Get", keyID, 0, "nil"),
                                             Ev("GenerateRootUpdate", keyID, nonce, "err")>>
                       /\ pc' = "done"
                       /\ err' = "unable to update generate-root token process"
                       /\ vlt' = (IF vf THEN vlt ELSE r.v)
                       /\ i' = i /\ token' = token /\ rootToken' = rootToken
                  ELSE /\ vlt' = r.v
                       /\ trace' = trace \o
                            <<Ev("Get", keyID, 0, "nil"),
                              Ev("GenerateRootUpdate", keyID, nonce,
                                 IF r.Complete THEN "complete" ELSE "progress")>>
                       /\ IF r.Complete
                          THEN IF ~d.ok
                               THEN /\ pc' = "done" /\ err' = d.e
                                    /\ i' = i /\ token' = token /\ rootToken' = rootToken
                               ELSE /\ rootToken' = d.val
                                    /\ token' = d.val
                                    /\ pc' = "cfg_decode" /\ err' = err /\ i' = i
                          ELSE /\ pc' = pc /\ err' = err /\ i' = i + 1
                               /\ token' = token /\ rootToken' = rootToken
    /\ Frame({"vlt", "i", "token", "rootToken"})

\* Lines 696-723: the deferred calls are registered; the input is decoded
\* onto a copy of v.externalConfig.
ConfigureDecode ==
    /\ pc = "cfg_decode"
    /\ LET d == Decode(extCfg, args.config)
       IN  IF ~d.ok
           THEN /\ pc' = "done" /\ err' = "error decoding externalConfig"
                /\ extCfg' = extCfg
                /\ Deferred
           ELSE /\ pc' = "cfg_apply" /\ err' = err
                /\ extCfg' = d.val
                /\ token' = token /\ rootToken' = rootToken
    /\ trace' = trace
    /\ Frame({"extCfg", "token", "rootToken"})

\* The sub-configurators that run when the one numbered failing fails
\* (0: none fails).
StageCalls_all(failing) ==
    [n \in 1..Len(Stages) |-> Ev(Stages[n], NoKey, 0, IF n = failing THEN "err" ELSE "ok")]

StageCalls(failing) ==
    [n \in 1..(IF failing = 0 THEN Len(Stages) ELSE failing) |->
        Ev(Stages[n], NoKey, 0, IF n = failing THEN "err" ELSE "ok")]

\* Lines 725-753: the sub-configurators, up to the first that fails.
ConfigureApply ==
    /\ pc = "cfg_apply"
    /\ \E failing \in 0..Len(Stages) :
         /\ trace' = trace \o StageCalls(failing)
         /\ err' = IF failing = 0 THEN "nil" ELSE StageErrors[failing]
    /\ pc' = "done"
    /\ Deferred
    /\ Frame({"token", "rootToken"})

--------------------------------------------------------------------------
\* The other parties: Vault gets sealed (a restart) and unsealed (by the
\* unseal command of another operator process) while this operator is
\* between verbs or waits in Init for Vault to be unsealed.

VaultSealed ==
    /\ pc \in {"idle", "init_wait", "sleep"}
    /\ vlt.initialized /\ ~vlt.sealed /\ ~vlt.recovery
    /\ vlt' = [vlt EXCEPT !.sealed = TRUE, !.progress = {}, !.rekey = NoRekey,
                          !.genroot = NoGenRoot]
    /\ pc' = pc /\ err' = err /\ trace' = trace
    /\ Frame({"vlt"})

VaultUnsealed ==
    /\ pc \in {"idle", "init_wait", "sleep"}
    /\ vlt.initialized /\ vlt.sealed
    /\ vlt' = [vlt EXCEPT !.sealed = FALSE, !.progress = {}]
    /\ pc' = pc /\ err' = err /\ trace' = trace
    /\ Frame({"vlt"})

--------------------------------------------------------------------------

\* The whole operator: every verb, every Config.
Next ==
    \/ New
    \/ Return
    \/ InitStatus
    \/ InitPreFlight
    \/ InitProbe
    \/ InitVault
    \/ InitStoreKeys
    \/ InitWaitUnsealed
    \/ InitCreateOrphan
    \/ InitRevoke
    \/ InitStoreRoot
    \/ Unseal
    \/ UnsealStep
    \/ CheckNewUnsealKeys
    \/ Rekey
    \/ RekeyFetch
    \/ initializeRekey
    \/ sendRekeyUpdates
    \/ finishRekey
    \/ rekeyCmdRun
    \/ newKeysNotExists
    \/ rekey
    \/ Sleep
    \/ Stop
    \/ Configure
    \/ ConfigureGenerateRoot
    \/ ConfigureDecode
    \/ ConfigureApply
    \/ VaultSealed
    \/ VaultUnsealed

Spec == Init /\ [][Next]_vars

\* Init and Unseal under every Config, seal kind and initial keystore.
NextInit ==
    \/ New
    \/ Return
    \/ InitStatus
    \/ InitPreFlight
    \/ InitProbe
    \/ InitVault
    \/ InitStoreKeys
    \/ InitWaitUnsealed
    \/ InitCreateOrphan
    \/ InitRevoke
    \/ InitStoreRoot
    \/ Unseal
    \/ UnsealStep
    \/ VaultSealed
    \/ VaultUnsealed

SpecInit == Init /\ [][NextInit]_vars

\* Rekey, NewUnsealKeysExists and the rekey command, on a Vault that Init
\* initializes from an empty keystore; the Config's root-token and
\* pre-flight settings, which Rekey never reads, are off.
RekeyConfigs ==
    {c \in Configs : c.InitRootToken = EmptyStr /\ ~c.StoreRootToken /\ ~c.PreFlightChecks}

InitRekey == InitWith(RekeyConfigs, TRUE)

NextRekey ==
    \/ New
    \/ Return
    \/ InitStatus
    \/ InitProbe
    \/ InitVault
    \/ InitStoreKeys
    \/ InitStoreRoot
    \/ Unseal
    \/ UnsealStep
    \/ CheckNewUnsealKeys
    \/ Rekey
    \/ RekeyFetch
    \/ initializeRekey
    \/ sendRekeyUpdates
    \/ finishRekey
    \/ rekeyCmdRun
    \/ newKeysNotExists
    \/ rekey
    \/ Sleep
    \/ Stop
    \/ VaultSealed
    \/ VaultUnsealed

SpecRekey == InitRekey /\ [][NextRekey]_vars

\* Configure after Init and Unseal, from an empty keystore, without the
\* pre-flight check.
ConfigureConfigs == {c \in Configs : ~c.PreFlightChecks}

InitConfigure == InitWith(ConfigureConfigs, TRUE)

NextConfigure ==
    \/ New
    \/ Return
    \/ InitStatus
    \/ InitProbe
    \/ InitVault
    \/ InitStoreKeys
    \/ InitWaitUnsealed
    \/ InitCreateOrphan
    \/ InitRevoke
    \/ InitStoreRoot
    \/ Unseal
    \/ UnsealStep
    \/ Configure
    \/ ConfigureGenerateRoot
    \/ ConfigureDecode
    \/ ConfigureApply
    \/ VaultSealed
    \/ VaultUnsealed

SpecConfigure == InitConfigure /\ [][NextConfigure]_vars

\* Init and Unseal with a loop of Unseal that keeps running: a call that has
\* begun is not suspended for ever.
SpecUnseal == Init /\ [][NextInit]_vars /\ WF_vars(UnsealStep)

--------------------------------------------------------------------------
\* All four verbs of one operator: Init, Unseal, Rekey and Configure in any
\* order, from a keystore that may hold a stale entry.  The root token is
\* stored (so Configure reads it back from vault-root); no InitRootToken, no
\* pre-flight check.
VerbConfigs ==
    {c \in Configs : c.InitRootToken = EmptyStr /\ c.StoreRootToken /\ ~c.PreFlightChecks}

InitVerbs == InitWith(VerbConfigs, FALSE)

NextVerbs ==
    \/ New
    \/ Return
    \/ InitStatus
    \/ InitProbe
    \/ InitVault
    \/ InitStoreKeys
    \/ InitStoreRoot
    \/ Unseal
    \/ UnsealStep
    \/ Rekey
    \/ RekeyFetch
    \/ initializeRekey
    \/ sendRekeyUpdates
    \/ finishRekey
    \/ Configure
    \/ ConfigureDecode
    \/ ConfigureApply
    \/ VaultSealed
    \/ VaultUnsealed

SpecVerbs == InitVerbs /\ [][NextVerbs]_vars

--------------------------------------------------------------------------
\* The helpers on their own: keyStoreSet and XORBytes called directly, with
\* arguments drawn from small sets.

\* Longest byte slice XORBytes is called with.
MaxLen == 2

\* Byte values and the byte slices made of them.
Bytes == {0, 1, 255}
ByteSeqs == UNION {[1..n -> Bytes] : n \in 0..MaxLen}

HelperKeys == {keyRootToken, keyUnsealForID(0), keyRecoveryForID(0)}
HelperVals == {RootTok, Share(1, 0)}

NoCall == [called |-> FALSE]

\* One keyStoreSet call.  args keeps the keystore before the call and the
\* keyStoreSet call right before this one, if there was one.
keyStoreSetCall ==
    /\ pc = "idle"
    /\ \E key \in HelperKeys, val \in HelperVals, gf, sf \in BOOLEAN :
         LET s == keyStoreSet(key, val, gf, sf)
         IN  /\ keyStore' = s.store
             /\ trace' = SetCalls(key, gf, s)
             /\ err' = s.err
             /\ args' = [kind |-> "keyStoreSet", key |-> key, val |-> val,
                         before |-> keyStore,
                         prev |-> IF opName = "keyStoreSet"
                                  THEN [called |-> TRUE, key |-> args.key,
                                        val |-> args.val, err |-> err]
                                  ELSE NoCall]
    /\ opName' = "keyStoreSet"
    /\ pc' = pc
    /\ Frame({"keyStore", "args", "opName"})

\* One XORBytes call.
XORBytesCall ==
    /\ pc = "idle"
    /\ \E a, b \in ByteSeqs :
         LET r == XORBytes(a, b)
         IN  /\ args' = [kind |-> "XORBytes", a |-> a, b |-> b]
             /\ resp' = [kind |-> "xor", ok |-> r.ok, val |-> r.val]
             /\ err' = IF r.ok THEN "nil" ELSE "length of byte slices is not equivalent"
    /\ opName' = "XORBytes"
    /\ trace' = <<>>
    /\ pc' = "done"
    /\ Frame({"args", "resp", "opName"})

\* One operator with one share, an empty keystore at the start.
HelperConfigs ==
    {c \in RekeyConfigs : c.SecretShares = c.SecretThreshold /\ c.SecretShares = MaxShares}

InitHelpers == InitWith(HelperConfigs, TRUE)

NextKeyStoreSet ==
    \/ New
    \/ keyStoreSetCall

SpecKeyStoreSet == InitHelpers /\ [][NextKeyStoreSet]_vars

NextXORBytes ==
    \/ New
    \/ XORBytesCall
    \/ Return

SpecXORBytes == InitHelpers /\ [][NextXORBytes]_vars

--------------------------------------------------------------------------
\* Properties

\* The events of a trace that are calls of the given kinds, in order.
CallsOf(tr, kinds) == SelectSeq(tr, LAMBDA e : e.call \in kinds)

\* Store s holds val under key.
Holds(s, key, val) == key \in DOMAIN s /\ s[key] = val

\* Init has returned.
InitReturned == pc = "done" /\ opName = "Init"

\* Init has returned success from a call that initialized Vault.
InitSucceeded == InitReturned /\ err = "nil" /\ resp.kind = "init"

\* C1 (as the code has it): every Init run that returns success against an
\* uninitialized Vault whose seal is not a recovery seal, with
\* StoreRootToken=true and no InitRootToken, leaves vault-unseal-i equal to
\* the i-th key Vault Init returned for every 0 <= i < SecretShares and
\* vault-root equal to the returned root token; and a later Init call whose
\* init-status query succeeds returns success.
C1_InitStoresKeysAndRoot ==
    (cfg.StoreRootToken /\ cfg.InitRootToken = EmptyStr) =>
        /\ (InitSucceeded /\ ~vlt.recovery) =>
               /\ \A n \in 0..(cfg.SecretShares - 1) :
                    /\ n + 1 <= Len(resp.Keys)
                    /\ Holds(keyStore, <<"vault-unseal-", n>>, resp.Keys[n + 1])
               /\ Holds(keyStore, <<"vault-root">>, resp.RootToken)
        /\ (InitReturned /\ args.again /\ trace[1].res = "ok") => err = "nil"

\* C1 witness: a second Init has returned success, and the keystore holds
\* what the first one stored for two shares.
C1_Witness ==
    /\ InitReturned /\ args.again /\ err = "nil"
    /\ cfg.StoreRootToken /\ cfg.InitRootToken = EmptyStr /\ ~vlt.recovery
    /\ cfg.SecretShares > 1
    /\ Holds(keyStore, <<"vault-unseal-", 0>>, Share(1, 0))
    /\ Holds(keyStore, <<"vault-unseal-", 1>>, Share(1, 1))
    /\ Holds(keyStore, <<"vault-root">>, RootTok)

\* C1 as stated: whatever the seal, and whatever becomes of the second
\* call's status query.
C1_AsStated ==
    (cfg.StoreRootToken /\ cfg.InitRootToken = EmptyStr) =>
        /\ InitSucceeded =>
               /\ \A n \in 0..(cfg.SecretShares - 1) :
                    /\ n + 1 <= Len(resp.Keys)
                    /\ Holds(keyStore, <<"vault-unseal-", n>>, resp.Keys[n + 1])
               /\ Holds(keyStore, <<"vault-root">>, resp.RootToken)
        /\ (InitReturned /\ args.again) => err = "nil"

\* C2: whenever Vault reports initialized, Init returns success after the
\* status query alone: no keystore write (the pre-flight write included), no
\* Vault Init, no change to Vault, and the client token as it was.
C2_InitializedIsNoOp ==
    [][(pc = "idle" /\ opName' = "Init" /\ vlt.initialized /\ trace'[1].res = "ok") =>
          /\ pc' = "done" /\ err' = "nil"
          /\ Len(trace') = 1
          /\ keyStore' = keyStore /\ vlt' = vlt /\ token' = token]_vars

\* C2 witness: Init has returned from an initialized Vault with pre-flight
\* checks on, the keystore and a non-empty client token as before the call.
C2_Witness ==
    /\ InitReturned /\ args.initialized /\ err = "nil"
    /\ cfg.PreFlightChecks
    /\ Len(trace) = 1
    /\ keyStore = args.before
    /\ token = RootTok

\* Init has returned from a call that found Vault uninitialized, passed the
\* pre-flight check if there is one, and started with one of the probed
\* names in the keystore.
InitOnDirtyKeystore ==
    /\ InitReturned /\ trace[1].res = "ok" /\ ~args.initialized
    /\ err # "error testing keystore before init"
    /\ \E n \in 0..cfg.SecretShares :
         <<"vault-root">> \in DOMAIN args.before
         \/ <<"vault-unseal-", n>> \in DOMAIN args.before

\* C3: if Vault is uninitialized and one of vault-root, vault-unseal-0, ...,
\* vault-unseal-SecretShares is in the keystore, Init fails with the
\* 'already exists' error, Vault stays uninitialized (Vault Init is not
\* called) and none of those keys is modified.
C3_DirtyKeystoreStopsInit ==
    InitOnDirtyKeystore =>
        /\ err = "error before init: value already exists"
        /\ ~vlt.initialized
        /\ CallsOf(trace, {"Init"}) = <<>>
        /\ \A k \in DOMAIN args.before : Holds(keyStore, k, args.before[k])

\* C3 failing run: Init has returned success, Vault initialized, from a
\* keystore that held one of the probed names.
C3_Witness == InitOnDirtyKeystore /\ vlt.initialized /\ err = "nil"

\* The calls Unseal makes: Get and Unseal of the same name, by turns.
UnsealSubmissions == CallsOf(trace, {"Unseal"})

\* C4: Unseal reads and submits vault-unseal-0, vault-unseal-1, ... one at a
\* time in increasing order; it returns success exactly when a response
\* reported Sealed=false; a response with Sealed=true and Progress=0 is the
\* last submission and makes it fail with the 'failed to unseal' error.
C4_UnsealInOrder ==
    (opName = "Unseal" /\ pc \in {"unseal", "done"}) =>
        /\ \A n \in 1..Len(UnsealSubmissions) :
             /\ UnsealSubmissions[n].key = <<"vault-unseal-", n - 1>>
             /\ trace[2 * n].call = "Unseal"
             /\ trace[2 * n - 1] = Ev("Get", <<"vault-unseal-", n - 1>>, 0, "nil")
             /\ UnsealSubmissions[n].res \in {"unsealed", "progress0", "err"} =>
                    n = Len(UnsealSubmissions) /\ pc = "done"
             /\ UnsealSubmissions[n].res = "progress0" => err = "failed to unseal vault"
        /\ pc = "done" =>
             (err = "nil" <=> /\ UnsealSubmissions # <<>>
                              /\ UnsealSubmissions[Len(UnsealSubmissions)].res = "unsealed")

\* C4 witness: the second share submitted was answered Sealed=true,
\* Progress=0, and Unseal has failed.
C4_Witness ==
    /\ opName = "Unseal" /\ pc = "done"
    /\ Len(UnsealSubmissions) > 1
    /\ UnsealSubmissions[Len(UnsealSubmissions)].res = "progress0"
    /\ err = "failed to unseal vault"

\* Rekey has returned to its caller or to the rekey command.
RekeyReturned == opName = "Rekey" /\ pc \in {"done", "sleep"}

\* The running Rekey's RekeyInit succeeded.
RekeyInitSucceeded ==
    \E n \in 1..Len(trace) : trace[n].call = "RekeyInit" /\ trace[n].res = "ok"

\* C5: after every Rekey that returns success with recipients r_0..r_(n-1),
\* for each 0 <= i < n the keystore holds, under '<r_i>-vault-unseal-<i>',
\* the once-decoded i-th KeysB64 element of the completing response.
C5_ShareStoredPerRecipient ==
    (RekeyReturned /\ err = "nil") =>
        \A n \in 1..Len(args.pgpKeys) :
            /\ n <= Len(resp.KeysB64)
            /\ Holds(keyStore, <<args.pgpKeys[n], "-", <<"vault-unseal-", n - 1>>>>,
                     resp.KeysB64[n][2])

\* C5 failing run: Rekey has returned success for two recipients and the
\* second one has no entry.
C5_Witness ==
    /\ RekeyReturned /\ err = "nil"
    /\ Len(args.pgpKeys) > 1
    /\ <<args.pgpKeys[2], "-", <<"vault-unseal-", 1>>>> \notin DOMAIN keyStore

\* C6: an error Rekey returns after its RekeyInit succeeded is preceded by
\* exactly one RekeyCancel attempt.
C6_CancelBeforeAnyError ==
    (RekeyReturned /\ err # "nil" /\ RekeyInitSucceeded) =>
        Len(CallsOf(trace, {"RekeyCancel"})) = 1

\* C6 failing run: RekeyInit succeeded, the Get of an unseal key failed, and
\* Rekey has returned the error without a RekeyCancel.
C6_Witness ==
    /\ RekeyReturned /\ err = "unable to get key" /\ RekeyInitSucceeded
    /\ CallsOf(trace, {"RekeyCancel"}) = <<>>
    /\ vlt.rekey.started

\* C7: when a RekeyUpdate fails, Rekey calls RekeyCancel exactly once, right
\* after it and as its last call, returns the 'failed to send rekey update'
\* error whatever RekeyCancel answered, and leaves the keystore as it was.
C7_UpdateFailureCancels ==
    (RekeyReturned /\ \E n \in 1..Len(trace) :
                         trace[n].call = "RekeyUpdate" /\ trace[n].res = "err") =>
        /\ Len(CallsOf(trace, {"RekeyCancel"})) = 1
        /\ trace[Len(trace)].call = "RekeyCancel"
        /\ trace[Len(trace) - 1].call = "RekeyUpdate" /\ trace[Len(trace) - 1].res = "err"
        /\ Len(CallsOf(trace, {"RekeyUpdate"})) = i + 1
        /\ err = "failed to send rekey update request to vault"
        /\ keyStore = args.before
        /\ CallsOf(trace, {"Set"}) = <<>>

\* C7 witness: after a successful RekeyInit the second RekeyUpdate failed,
\* the RekeyCancel failed as well, and Rekey has returned.
C7_Witness ==
    /\ RekeyReturned /\ RekeyInitSucceeded
    /\ Len(CallsOf(trace, {"RekeyUpdate"})) > 1
    /\ trace[Len(trace)] = Ev("RekeyCancel", NoKey, 0, "err")
    /\ err = "failed to send rekey update request to vault"

\* C9: for a non-empty recipient list NewUnsealKeysExists makes one Get, of
\* '<recipients[0]>-vault-unseal-0'; a backend error comes back as an error;
\* otherwise the answer is whether the keystore holds that key.
C9_ExistsIffFirstKey ==
    (pc = "done" /\ opName = "NewUnsealKeysExists" /\ Len(args.pgpKeys) > 0) =>
        LET key == <<args.pgpKeys[1], "-", <<"vault-unseal-", 0>>>>
        IN  /\ Len(trace) = 1
            /\ trace[1].call = "Get" /\ trace[1].key = key
            /\ trace[1].res = "backend" => err # "nil"
            /\ trace[1].res # "backend" =>
                   /\ err = "nil"
                   /\ resp.exists <=> key \in DOMAIN keyStore

\* C9 witness: the answer is false for two recipients of whom the second
\* has its entry while '<recipients[0]>-vault-unseal-0' is absent.
C9_Witness ==
    /\ pc = "done" /\ opName = "NewUnsealKeysExists" /\ err = "nil"
    /\ Len(args.pgpKeys) > 1
    /\ ~resp.exists
    /\ <<args.pgpKeys[2], "-", <<"vault-unseal-", 1>>>> \in DOMAIN keyStore

\* The calls of the current tick that are requests to Vault's rekey
\* endpoints.
RekeyRequests == CallsOf(trace, {"RekeyStatus", "RekeyInit", "RekeyUpdate", "RekeyCancel"})

\* C10: in every tick of the rekey command, Rekey is invoked exactly if
\* NewUnsealKeysExists answered false and Vault answered unsealed; when the
\* keys exist or Vault is sealed, the tick makes no rekey request and goes
\* to sleep for the retry period.
C10_TickRekeysOnlyWhenNeeded ==
    tick.active =>
        /\ opName = "Rekey" <=> (tick.exists = "false" /\ tick.sealed = "false")
        /\ tick.rekey <=> opName = "Rekey"
        /\ RekeyRequests # <<>> => opName = "Rekey"
        /\ (tick.exists = "true" \/ tick.sealed = "true") =>
               pc = "sleep" /\ RekeyRequests = <<>>

\* C10 witness: a tick found the keys absent and Vault sealed, and sleeps
\* without having called Rekey.
C10_Witness ==
    /\ tick.active /\ tick.exists = "false" /\ tick.sealed = "true"
    /\ pc = "sleep" /\ opName # "Rekey"

\* C8: when Configure has returned, the client token is empty and the
\* rootToken buffer holds nothing, on every exit path and whatever the
\* client token was before the call.
C8_ConfigureClearsToken ==
    (pc = "done" /\ opName = "Configure") => (token = EmptyStr /\ rootToken = EmptyStr)

\* C8 failing run: Configure has returned an error from reading vault-root,
\* and the client token it was called with is still set.
C8_Witness ==
    /\ pc = "done" /\ opName = "Configure" /\ err = "unable to get key"
    /\ cfg.StoreRootToken
    /\ token # EmptyStr /\ token = args.before

\* C11: keyStoreSet is at-most-once per key.  A call that follows a
\* successful call for the same key, its Get answered by the keystore, fails
\* with 'already exists', calls no Set and leaves the first value; a call
\* whose Get fails with an error other than NotFound fails without calling
\* Set; Set is called exactly when Get answered NotFound.
C11_KeyStoreSetAtMostOnce ==
    opName = "keyStoreSet" =>
        /\ trace[1].call = "Get" /\ trace[1].key = args.key
        /\ (/\ args.prev.called /\ args.prev.key = args.key /\ args.prev.err = "nil"
            /\ trace[1].res # "backend") =>
               /\ err = "already exists"
               /\ Holds(keyStore, args.key, args.prev.val)
        /\ trace[1].res = "backend" =>
               err = "error setting key" /\ Len(trace) = 1 /\ keyStore = args.before
        /\ trace[1].res = "nil" =>
               err = "already exists" /\ Len(trace) = 1 /\ keyStore = args.before
        /\ trace[1].res = "notfound" =>
               /\ Len(trace) > 1 /\ trace[Len(trace)].call = "Set"
               /\ err = "nil" => Holds(keyStore, args.key, args.val)

\* C11 witness: the second of two calls for the same key, with another
\* value, has failed with 'already exists' and the first value is kept.
C11_Witness ==
    /\ opName = "keyStoreSet" /\ args.prev.called
    /\ args.prev.key = args.key /\ args.prev.err = "nil" /\ args.prev.val # args.val
    /\ err = "already exists"
    /\ Holds(keyStore, args.key, args.prev.val)

\* The names Init writes once: vault-root, vault-unseal-i and
\* vault-recovery-i.
WriteOnceNames ==
    {<<"vault-root">>} \cup {<<"vault-unseal-", n>> : n \in 0..MaxShares}
                       \cup {<<"vault-recovery-", n>> : n \in 0..MaxShares}

\* The names '<recipient>-vault-unseal-<i>' of a recipient list.
RecipientNames(pgpKeys) ==
    {<<pgpKeys[m], "-", <<"vault-unseal-", n>>>> : m \in 1..Len(pgpKeys), n \in 0..MaxShares}

\* C12: over any sequence of Init, Unseal, Rekey and Configure calls of one
\* operator, no keystore entry is ever deleted, an entry under vault-unseal-i,
\* vault-recovery-i or vault-root keeps its value, and the entries Rekey
\* creates, changes or calls Set for are named '<recipient>-vault-unseal-<i>'.
C12_KeystoreWriteOnce ==
    [][/\ \A k \in DOMAIN keyStore : k \in DOMAIN keyStore'
       /\ \A k \in (DOMAIN keyStore) \cap WriteOnceNames : keyStore'[k] = keyStore[k]
       /\ opName' = "Rekey" =>
              /\ \A k \in DOMAIN keyStore' :
                     (k \notin DOMAIN keyStore \/ keyStore'[k] # keyStore[k]) =>
                         k \in RecipientNames(args'.pgpKeys)
              /\ \A n \in 1..Len(trace') :
                     trace'[n].call = "Set" =>
                         trace'[n].key \in RecipientNames(args'.pgpKeys)]_vars

\* C12 witness: after Init stored the shares and the root token, a Rekey has
\* succeeded and written its recipients' entries; vault-unseal-0 and
\* vault-root still hold what Init stored, and a Configure has run since the
\* stores were written (the policies section is set).
C12_Witness ==
    /\ opName = "Rekey" /\ pc = "done" /\ err = "nil"
    /\ vlt.gen = 2
    /\ keyStore # args.before
    /\ Holds(keyStore, <<"vault-unseal-", 0>>, Share(1, 0))
    /\ Holds(keyStore, <<"vault-root">>, RootTok)
    /\ extCfg.policies = "p1"

\* The sub-configurator calls of the running Configure.
StageEvents ==
    CallsOf(trace, {"configureAuditDevices", "configureAuthMethods",
                    "configureIdentityGroups", "configurePlugins", "configurePolicies",
                    "configureSecretsEngines", "configureStartupSecrets"})

\* C13: Configure invokes the sub-configurators in the order audit devices,
\* auth methods, identity groups, plugins, policies, secret engines, startup
\* secrets; each one starts only after the one before it returned success;
\* the one that fails is the last one invoked and Configure returns its
\* error; Configure returns success only after all seven succeeded.
C13_StagesInOrder ==
    (opName = "Configure" /\ pc = "done") =>
        LET order == <<"configureAuditDevices", "configureAuthMethods",
                       "configureIdentityGroups", "configurePlugins",
                       "configurePolicies", "configureSecretsEngines",
                       "configureStartupSecrets">>
        IN  /\ Len(StageEvents) <= Len(order)
            /\ \A n \in 1..Len(StageEvents) :
                 /\ StageEvents[n].call = order[n]
                 /\ n < Len(StageEvents) => StageEvents[n].res = "ok"
                 /\ StageEvents[n].res = "err" =>
                        n = Len(StageEvents) /\ err = StageErrors[n]
            /\ (StageEvents # <<>> /\ StageEvents[Len(StageEvents)].res = "ok") =>
                   Len(StageEvents) = Len(order) /\ err = "nil"
            /\ err = "nil" => Len(StageEvents) = Len(order)

\* C13 witness: the first four sub-configurators succeeded, configurePolicies
\* failed, and Configure has returned its error.
C13_Witness ==
    /\ opName = "Configure" /\ pc = "done"
    /\ Len(StageEvents) = 5
    /\ StageEvents[4].res = "ok"
    /\ StageEvents[5] = Ev("configurePolicies", NoKey, 0, "err")
    /\ err = "error configuring policies for vault"

\* C14: a Configure call whose input has an unknown field invokes no
\* sub-configurator, leaves the stored externalConfig as it was before the
\* call and never returns success; once it has its root token, it returns
\* the decoding error.
C14_UnknownFieldFailsDecoding ==
    [][(opName' = "Configure" /\ args'.config.unknown) =>
          /\ extCfg' = extCfg
          /\ StageEvents' = <<>>
          /\ pc' = "done" => err' # "nil"
          /\ pc = "cfg_decode" =>
                 pc' = "done" /\ err' = "error decoding externalConfig"]_vars

\* C14 witness: a Configure whose input has a policies section and an
\* unknown field has returned the decoding error; the stored externalConfig
\* has no policies section.
C14_Witness ==
    /\ opName = "Configure" /\ pc = "done"
    /\ args.config.unknown /\ args.config.policies = "p1"
    /\ err = "error decoding externalConfig"
    /\ extCfg.policies = "unset"
    /\ StageEvents = <<>>

\* The recipient list of the running Rekey is empty, or none of its entries
\* has the 'keybase:' prefix, so that the Keybase fetch yields nothing.
NothingToFetch ==
    \A n \in 1..Len(args.pgpKeys) : ~HasPrefix(args.pgpKeys[n])

\* C15: a Rekey with an empty recipient list, or with recipients for which
\* the Keybase fetch yields an empty result, returns an error and issues
\* neither RekeyInit nor RekeyUpdate.
C15_ConfigErrorsBeforeVault ==
    (RekeyReturned /\ NothingToFetch) =>
        /\ err # "nil"
        /\ CallsOf(trace, {"RekeyInit", "RekeyUpdate"}) = <<>>

\* C15 failing run: Rekey with the one recipient 'carol' (no 'keybase:'
\* prefix) fetched no key, started a rekey without PGP keys, completed it and
\* has returned success with the new share stored unencrypted.
C15_Witness ==
    /\ RekeyReturned /\ args.pgpKeys = <<carol>>
    /\ err = "nil"
    /\ RekeyInitSucceeded
    /\ vlt.gen = 2
    /\ Holds(keyStore, <<carol, "-", <<"vault-unseal-", 0>>>>, Share(2, 0))

\* The running Rekey has called RekeyInit.
RekeyInitCalled == \E n \in 1..Len(trace) : trace[n].call = "RekeyInit"

\* C16: in every Rekey that reaches RekeyInit, the PGPKeys list sent to
\* Vault has one key per recipient, in the recipients' order: it is as long
\* as the recipient list and its i-th key is recipient i's public key.
C16_OneKeyPerRecipient ==
    (opName = "Rekey" /\ RekeyInitCalled) =>
        /\ Len(args.keybaseKeys) = Len(args.pgpKeys)
        /\ \A n \in 1..Len(args.pgpKeys) :
             /\ n <= Len(args.keybaseKeys)
             /\ HasPrefix(args.pgpKeys[n])
             /\ args.keybaseKeys[n] = B64(PubKey(TrimPrefix(args.pgpKeys[n])))

\* C16 failing run: Rekey with recipients 'carol', 'keybase:bob' and one
\* share sent Vault bob's key alone, and has returned success with the share
\* encrypted for bob stored under carol's name.
C16_Witness ==
    /\ RekeyReturned /\ err = "nil" /\ RekeyInitSucceeded
    /\ args.pgpKeys = <<carol, bob>>
    /\ args.keybaseKeys = <<B64(PubKey(<<"bob">>))>>
    /\ Holds(keyStore, <<carol, "-", <<"vault-unseal-", 0>>>>,
             Encrypted(B64(PubKey(<<"bob">>)), Share(2, 0)))

\* C17: with InitRootToken configured and StoreRootToken=false, Init
\* creates the orphan token with the root token Vault Init returned as client
\* token; it revokes only right after a creation that succeeded; a failed
\* creation is its last call, returned as an error with the returned root
\* token still valid; it never calls Set for vault-root; and when it returns
\* success the creation and the revocation both succeeded, in that order,
\* Vault knows InitRootToken and no longer the returned root token, and
\* vault-root is as it was.
C17_OrphanThenRevoke ==
    (opName = "Init" /\ cfg.InitRootToken # EmptyStr /\ ~cfg.StoreRootToken) =>
        /\ \A n \in 1..Len(trace) :
             /\ trace[n].call = "CreateOrphan" => token = resp.RootToken
             /\ trace[n].call = "RevokeSelf" =>
                    n > 1 /\ trace[n - 1] = Ev("CreateOrphan", NoKey, 0, "ok")
             /\ trace[n] = Ev("CreateOrphan", NoKey, 0, "err") =>
                    /\ n = Len(trace) /\ pc = "done"
                    /\ err = "unable to setup requested root token"
                    /\ resp.RootToken \in vlt.tokens
             /\ trace[n].call = "Set" => trace[n].key # <<"vault-root">>
        /\ InitSucceeded =>
             /\ Len(CallsOf(trace, {"CreateOrphan"})) = 1
             /\ Len(CallsOf(trace, {"RevokeSelf"})) = 1
             /\ trace[Len(trace)] = Ev("RevokeSelf", NoKey, 0, "ok")
             /\ cfg.InitRootToken \in vlt.tokens
             /\ resp.RootToken \notin vlt.tokens
             /\ <<"vault-root">> \in DOMAIN keyStore =>
                    Holds(args.before, <<"vault-root">>, keyStore[<<"vault-root">>])

\* C17 witness: Init has returned success with InitRootToken set and
\* StoreRootToken=false; the orphan token exists, the returned root token is
\* revoked, and the keystore has the unseal share but no vault-root.
C17_Witness ==
    /\ InitSucceeded /\ cfg.InitRootToken = StaticRoot /\ ~cfg.StoreRootToken
    /\ token = RootTok
    /\ vlt.tokens = {StaticRoot}
    /\ trace[Len(trace)] = Ev("RevokeSelf", NoKey, 0, "ok")
    /\ Holds(keyStore, <<"vault-unseal-", 0>>, Share(1, 0))
    /\ <<"vault-root">> \notin DOMAIN keyStore

\* The running Configure has decoded its input.
ConfigureDecoded ==
    opName = "Configure" /\ (pc = "cfg_apply" \/ (pc = "done" /\ StageEvents # <<>>))

\* C18: the configuration a Configure call applies is its input decoded onto
\* a fresh empty instance: a section absent from the input is unset, whatever
\* earlier Configure calls set.
C18_ConfigFromInputOnly ==
    ConfigureDecoded =>
        extCfg.policies = (IF args.config.policies = "absent" THEN "unset"
                           ELSE args.config.policies)

\* C18 failing run: a Configure without a policies section has applied all
\* seven stages and returned success, with the policies section of an
\* earlier call in the configuration it applied.
C18_Witness ==
    /\ opName = "Configure" /\ pc = "done" /\ err = "nil"
    /\ Len(StageEvents) = 7
    /\ args.config.policies = "absent"
    /\ extCfg.policies = "p1"

\* C19: construction fails exactly for the Configs with SecretShares <
\* SecretThreshold, with the threshold error; so an operator that was
\* constructed has SecretThreshold <= SecretShares in every state it reaches.
C19_ThresholdAtMostShares ==
    /\ pc = "failed" =>
           /\ cfg.SecretShares < cfg.SecretThreshold
           /\ err = "the secret threshold can't be bigger than the shares"
    /\ pc \notin {"new", "failed"} => cfg.SecretThreshold <= cfg.SecretShares

\* C19 witness: an operator constructed with SecretThreshold = SecretShares,
\* the largest threshold construction accepts, has initialized Vault.
C19_Witness ==
    /\ InitSucceeded
    /\ cfg.SecretThreshold = cfg.SecretShares /\ cfg.SecretShares = MaxShares
    /\ vlt.threshold = MaxShares

\* C20: XORBytes is self-inverse and length-checked.  For a and b of equal
\* length it succeeds and XORBytes of its result with b gives a back; for a
\* and b of different length it fails with the length error and returns no
\* bytes.
C20_XORBytesSelfInverse ==
    opName = "XORBytes" =>
        /\ Len(args.a) = Len(args.b) =>
               /\ resp.ok /\ err = "nil"
               /\ Len(resp.val) = Len(args.a)
               /\ XORBytes(resp.val, args.b).ok
               /\ XORBytes(resp.val, args.b).val = args.a
        /\ Len(args.a) # Len(args.b) =>
               /\ ~resp.ok /\ resp.val = <<>>
               /\ err = "length of byte slices is not equivalent"

\* C20 witness: XORBytes of the two bytes 1, 255 with 255, 255 has returned
\* 254, 0.
C20_Witness ==
    /\ opName = "XORBytes"
    /\ args.a = <<1, 255>> /\ args.b = <<255, 255>>
    /\ resp.ok /\ resp.val = <<254, 0>>

\* The running Rekey's RekeyStatus query has answered.
RekeyStatusAnswered == opName = "Rekey" /\ "respStatus" \in DOMAIN args

\* C21: in a Rekey whose RekeyStatus answered, RekeyInit is called at most
\* once and only if the answer was Started=false, and it is called in every
\* such run that got its Keybase keys; every RekeyUpdate carries the nonce
\* that RekeyInit returned or, when a rekey was Started, the nonce of the
\* status answer; after a RekeyInit that failed or returned an empty nonce
\* Rekey has failed without a RekeyUpdate.
C21_NonceFromInitOrStatus ==
    RekeyStatusAnswered =>
        LET inits == CallsOf(trace, {"RekeyInit"})
            updates == CallsOf(trace, {"RekeyUpdate"})
        IN  /\ Len(inits) <= 1
            /\ inits # <<>> => ~args.respStatus.Started
            /\ (/\ ~args.respStatus.Started
                /\ pc \notin {"rekey_fetch", "rekey_init"}
                /\ err # "unable to fetch Keybase PGP keys") => Len(inits) = 1
            /\ \A n \in 1..Len(updates) :
                 IF args.respStatus.Started
                 THEN updates[n].n = args.respStatus.Nonce
                 ELSE /\ inits # <<>> /\ inits[1].res = "ok"
                      /\ updates[n].n = inits[1].n
            /\ (inits # <<>> /\ inits[1].res # "ok") =>
                   /\ updates = <<>>
                   /\ RekeyReturned
                   /\ err = (IF inits[1].res = "no nonce"
                             THEN "failed to init rekey operation: empty nonce returned"
                             ELSE "unable to start rekey init process")

\* C21 witness: a Rekey that found a rekey Started has completed it with the
\* nonce of the status answer, without a RekeyInit, and returned success.
C21_Witness ==
    /\ RekeyStatusAnswered /\ RekeyReturned /\ err = "nil"
    /\ args.respStatus.Started
    /\ CallsOf(trace, {"RekeyInit"}) = <<>>
    /\ CallsOf(trace, {"RekeyUpdate"}) # <<>>
    /\ CallsOf(trace, {"RekeyUpdate"})[1].n = args.respStatus.Nonce

\* The generate-root requests of the running Configure.
GenerateRootCalls ==
    CallsOf(trace, {"GenerateRootCancel", "GenerateRootInit", "GenerateRootUpdate"})

\* C22: with StoreRootToken=false the generate-root requests of a Configure
\* are GenerateRootCancel, then after its success GenerateRootInit, then
\* after its success GenerateRootUpdate for i = 0, 1, ... below Required,
\* each with the nonce GenerateRootInit returned and with the key just read
\* from vault-recovery-i behind a recovery seal and from vault-unseal-i
\* otherwise; with StoreRootToken=true there is no generate-root request and
\* the client token Configure works with is the value under vault-root.
C22_GenerateRootOrder ==
    opName = "Configure" =>
        IF cfg.StoreRootToken
        THEN /\ GenerateRootCalls = <<>>
             /\ trace[1].call = "Get" /\ trace[1].key = <<"vault-root">>
             /\ pc \in {"cfg_decode", "cfg_apply"} =>
                    Holds(keyStore, <<"vault-root">>, token)
        ELSE /\ GenerateRootCalls # <<>>
             /\ \A n \in 1..Len(GenerateRootCalls) :
                  /\ n = 1 => GenerateRootCalls[n].call = "GenerateRootCancel"
                  /\ n = 2 => /\ GenerateRootCalls[n].call = "GenerateRootInit"
                              /\ GenerateRootCalls[1].res = "ok"
                  /\ n > 2 =>
                       /\ GenerateRootCalls[n].call = "GenerateRootUpdate"
                       /\ GenerateRootCalls[2].res = "ok"
                       /\ GenerateRootCalls[n].n = GenerateRootCalls[2].n
                       /\ n - 3 < args.Required
                       /\ GenerateRootCalls[n].key =
                              (IF vlt.recovery THEN <<"vault-recovery-", n - 3>>
                               ELSE <<"vault-unseal-", n - 3>>)
             /\ \A m \in 1..Len(trace) :
                  /\ trace[m].call = "GenerateRootUpdate" =>
                         m > 1 /\ trace[m - 1] = Ev("Get", trace[m].key, 0, "nil")
                  /\ trace[m].call = "Get" =>
                         trace[m].key[1] = (IF vlt.recovery THEN "vault-recovery-"
                                            ELSE "vault-unseal-")

\* C22 witness: behind a recovery seal with StoreRootToken=false, Configure
\* has sent two GenerateRootUpdates, of vault-recovery-0 and vault-recovery-1,
\* completed the protocol and holds the generated token.
C22_Witness ==
    /\ opName = "Configure" /\ pc = "cfg_decode"
    /\ ~cfg.StoreRootToken /\ vlt.recovery
    /\ Len(GenerateRootCalls) = 4
    /\ GenerateRootCalls[4] = Ev("GenerateRootUpdate", <<"vault-recovery-", 1>>,
                                 GenerateRootCalls[2].n, "complete")
    /\ token \in vlt.tokens

\* Configure has returned the error of a keystore Get or of a
\* GenerateRootUpdate that followed a successful GenerateRootInit.
GenerateRootFailedAfterInit ==
    /\ opName = "Configure" /\ pc = "done"
    /\ Len(GenerateRootCalls) > 1 /\ GenerateRootCalls[2].res = "ok"
    /\ err \in {"unable to get key", "unable to update generate-root token process"}

\* C23: when the generate-root protocol fails after GenerateRootInit
\* succeeded, Configure calls GenerateRootCancel once more before it returns
\* the error.
C23_CancelAfterGenerateRootFailure ==
    GenerateRootFailedAfterInit =>
        /\ Len(CallsOf(trace, {"GenerateRootCancel"})) = 2
        /\ GenerateRootCalls[Len(GenerateRootCalls)].call = "GenerateRootCancel"

\* C23 failing run: after GenerateRootInit the Get of the first key failed;
\* Configure has returned the error with the one GenerateRootCancel it
\* started with, and the session it opened is still in progress on Vault.
C23_Witness ==
    /\ GenerateRootFailedAfterInit /\ err = "unable to get key"
    /\ Len(CallsOf(trace, {"GenerateRootCancel"})) = 1
    /\ CallsOf(trace, {"GenerateRootUpdate"}) = <<>>
    /\ vlt.genroot.started

\* A Get of the running Init's pre-init probe (of vault-root or of a
\* vault-unseal-i, before the seal status is asked) failed with an error
\* other than NotFound.
ProbeFailed ==
    /\ opName = "Init"
    /\ \E m \in 1..Len(trace) :
         /\ trace[m].call = "Get" /\ trace[m].res = "backend"
         /\ trace[m].key # <<"vault-test">>
         /\ \A k \in 1..(m - 1) : trace[k].call \notin {"SealStatus", "Init"}

\* C24: a probe Get that fails with an error other than NotFound makes Init
\* fail with the 'checking key failed' error, and Vault Init is not called.
C24_ProbeErrorStopsInit ==
    ProbeFailed =>
        /\ pc = "done"
        /\ err = "error before init: checking key failed"
        /\ CallsOf(trace, {"Init"}) = <<>>

\* C24 failing run: a probe Get failed with a backend error, and Init has
\* gone on to initialize Vault and returned success.
C24_Witness ==
    /\ ProbeFailed /\ InitSucceeded
    /\ vlt.initialized
    /\ CallsOf(trace, {"Init"}) = <<Ev("Init", NoKey, 0, "ok")>>

\* C25: with InitRootToken configured, Init sets the client token and asks
\* for the orphan token only after a seal-status query that succeeded and
\* reported Vault unsealed.
C25_TokenOnlyAfterUnsealed ==
    (opName = "Init" /\ cfg.InitRootToken # EmptyStr) =>
        /\ pc = "init_orphan" =>
               trace[Len(trace)] = Ev("SealStatus", NoKey, 0, "ok") /\ ~vlt.sealed
        /\ \A m \in 1..Len(trace) :
               trace[m].call = "CreateOrphan" =>
                   m > 1 /\ trace[m - 1] = Ev("SealStatus", NoKey, 0, "ok")

\* C25 failing run: while Vault was sealed a seal-status query failed, Init
\* left its polling loop, set the client token, asked the sealed Vault for
\* the orphan token and has returned the error of that request.
C25_Witness ==
    /\ InitReturned /\ cfg.InitRootToken # EmptyStr
    /\ vlt.sealed
    /\ Len(trace) > 1
    /\ trace[Len(trace)] = Ev("CreateOrphan", NoKey, 0, "err")
    /\ trace[Len(trace) - 1] = Ev("SealStatus", NoKey, 0, "err")
    /\ token = resp.RootToken
    /\ err = "unable to setup requested root token"

\* Vault's key generation when the running Rekey began: a RekeyUpdate that
\* completed has advanced it by one since.
GenBefore ==
    vlt.gen - (IF \E m \in 1..Len(trace) :
                     trace[m].call = "RekeyUpdate" /\ trace[m].res = "complete"
               THEN 1 ELSE 0)

\* A round of the rekey command has run Rekey on a Vault that an earlier
\* Rekey had rekeyed, with no recipient's share in the keystore: the earlier
\* Rekey completed on Vault and persisted nothing.
RoundAfterLostRekey ==
    /\ RekeyReturned /\ tick.active
    /\ GenBefore > 1
    /\ \A k \in DOMAIN args.before : Len(k) < 3

\* No call of the running Rekey failed for a reason of its own: the Keybase
\* fetch did not fail, and the one kind of failed request is a RekeyUpdate
\* whose share, as the keystore has it, is not a share of Vault's current
\* keys.
NoNewFaults ==
    /\ err # "unable to fetch Keybase PGP keys"
    /\ \A m \in 1..Len(trace) :
         /\ trace[m].res \notin {"backend", "no nonce"}
         /\ trace[m].res = "err" =>
                /\ trace[m].call = "RekeyUpdate"
                /\ keyStore[trace[m].key] \notin ValidShares(vlt)

\* C26: when a Rekey completed on Vault and persisted nothing, the next
\* round of the rekey command runs Rekey again and, absent new faults, that
\* Rekey succeeds and leaves a share for every recipient.
C26_NextRoundRegenerates ==
    (RoundAfterLostRekey /\ NoNewFaults) =>
        /\ err = "nil"
        /\ \A n \in 1..Len(args.pgpKeys) :
             <<args.pgpKeys[n], "-", <<"vault-unseal-", n - 1>>>> \in DOMAIN keyStore

\* C26 failing run: Vault has been rekeyed and no share was persisted; the
\* next round's Rekey for 'keybase:alice' started a rekey, sent
\* vault-unseal-0, which is the share of the keys before the first rekey,
\* was refused, cancelled, and has ended the command with the error.
C26_Witness ==
    /\ RoundAfterLostRekey /\ NoNewFaults
    /\ args.pgpKeys = <<alice>> /\ cfg.SecretShares = 1
    /\ vlt.gen = 2
    /\ Holds(keyStore, <<"vault-unseal-", 0>>, Share(1, 0))
    /\ RekeyInitSucceeded
    /\ trace[Len(trace)] = Ev("RekeyCancel", NoKey, 0, "ok")
    /\ err = "failed to send rekey update request to vault"
    /\ pc = "done"

\* C27: whenever NewUnsealKeysExists answers true for a recipient list, the
\* keystore holds '<r_i>-vault-unseal-<i>' for every recipient of the list.
C27_ExistsMeansAllPersisted ==
    (pc = "done" /\ opName = "NewUnsealKeysExists" /\ err = "nil" /\ resp.exists) =>
        \A n \in 1..Len(args.pgpKeys) :
            <<args.pgpKeys[n], "-", <<"vault-unseal-", n - 1>>>> \in DOMAIN keyStore

\* C27 failing run: with two shares, a Rekey for 'keybase:alice',
\* 'keybase:bob' completed on Vault and stored alice's share but not bob's;
\* NewUnsealKeysExists has answered true for the two.
C27_Witness ==
    /\ pc = "done" /\ opName = "NewUnsealKeysExists" /\ err = "nil" /\ resp.exists
    /\ args.pgpKeys = <<alice, bob>>
    /\ cfg.SecretShares = 2
    /\ vlt.gen = 2
    /\ <<alice, "-", <<"vault-unseal-", 0>>>> \in DOMAIN keyStore
    /\ <<bob, "-", <<"vault-unseal-", 1>>>> \notin DOMAIN keyStore

\* The entries of the keystore named vault-unseal-i.
UnsealEntries == {k \in DOMAIN keyStore : Len(k) = 2 /\ k[1] = "vault-unseal-"}

\* C28: Unseal terminates.  While it runs it has made one submission per
\* round, never more than the keystore has vault-unseal-i entries; and every
\* Unseal that has begun ends, with success, with the Progress=0 error, with
\* a Vault request error or with a keystore Get error.
C28_UnsealTerminates ==
    /\ [](opName = "Unseal" =>
             /\ pc = "unseal" => Len(UnsealSubmissions) = i
             /\ Len(UnsealSubmissions) <= Cardinality(UnsealEntries))
    /\ (opName = "Unseal" /\ pc = "unseal") ~>
           (/\ opName = "Unseal" /\ pc = "done"
            /\ err \in {"nil", "failed to unseal vault",
                         "fail to send unseal request to vault", "unable to get key"})

\* C28 witness: with threshold two, Unseal has submitted vault-unseal-0 and
\* vault-unseal-1, Vault answered Sealed=false to the second, and Unseal has
\* returned success.
C28_Witness ==
    /\ opName = "Unseal" /\ pc = "done" /\ err = "nil"
    /\ cfg.SecretThreshold = 2
    /\ Len(UnsealSubmissions) = 2
    /\ UnsealSubmissions[1].res = "progress"
    /\ UnsealSubmissions[2].res = "unsealed"
    /\ ~vlt.sealed

\* The name of the first recipient's share.
FirstKey(pgpKeys) == <<pgpKeys[1], "-", <<"vault-unseal-", 0>>>>

\* C29: in the rekey command a Rekey that returns success leaves the first
\* recipient's share in the keystore, and a tick invokes Rekey only when the
\* keystore lacks that entry; so with entries that stay, no tick invokes
\* Rekey after one that succeeded.
C29_RekeyedAtMostOnce ==
    /\ []((tick.active /\ RekeyReturned /\ err = "nil") =>
             /\ args.pgpKeys = rekeyCfg
             /\ FirstKey(rekeyCfg) \in DOMAIN keyStore)
    /\ [][(pc = "loop_rekey" /\ opName' = "Rekey") =>
              /\ args'.pgpKeys = rekeyCfg
              /\ FirstKey(rekeyCfg) \notin DOMAIN keyStore]_vars

\* C29 witness: after a Rekey that rekeyed Vault and stored the first
\* recipient's share, a tick of the rekey command has found the share and
\* gone to sleep without asking Vault anything.
C29_Witness ==
    /\ pc = "sleep" /\ tick.active /\ tick.exists = "true" /\ ~tick.rekey
    /\ vlt.gen = 2
    /\ FirstKey(rekeyCfg) \in DOMAIN keyStore
    /\ RekeyRequests = <<>>

\* An Unseal has returned from a Vault that a Rekey had rekeyed, and no call
\* of it failed for a reason of its own: every Get was answered by the
\* keystore, and the one kind of failed request is an Unseal whose share, as
\* the keystore has it, is not a share of Vault's current keys.
UnsealAfterRekey ==
    /\ opName = "Unseal" /\ pc = "done"
    /\ vlt.gen > 1
    /\ \A m \in 1..Len(trace) :
         /\ trace[m].res # "backend"
         /\ trace[m].res = "err" =>
                /\ trace[m].call = "Unseal"
                /\ keyStore[trace[m].key] \notin ValidShares(vlt)

\* C30: after a Rekey has completed on Vault, an Unseal from the keystore
\* returns success.
C30_UnsealAfterRekey ==
    UnsealAfterRekey => err = "nil"

\* C30 failing run: a Rekey for 'keybase:alice' succeeded and stored her
\* share, Vault was sealed again, and Unseal has submitted vault-unseal-0,
\* still the share of the keys before the rekey; Vault answered Sealed=true,
\* Progress=0 and stays sealed.
C30_Witness ==
    /\ UnsealAfterRekey
    /\ cfg.SecretShares = 1
    /\ vlt.gen = 2 /\ vlt.sealed
    /\ Holds(keyStore, <<"vault-unseal-", 0>>, Share(1, 0))
    /\ Holds(keyStore, <<alice, "-", <<"vault-unseal-", 0>>>>,
             Encrypted(B64(PubKey(<<"alice">>)), Share(2, 0)))
    /\ UnsealSubmissions = <<Ev("Unseal", <<"vault-unseal-", 0>>, 0, "progress0")>>
    /\ err = "failed to unseal vault"

\* C31: after a successful Init with StoreRootToken=true the value under
\* vault-root is a token Vault accepts, and a Configure that read its client
\* token from vault-root works with a token Vault accepts.
C31_StoredRootTokenValid ==
    cfg.StoreRootToken =>
        /\ InitSucceeded =>
               /\ <<"vault-root">> \in DOMAIN keyStore
               /\ keyStore[<<"vault-root">>] \in vlt.tokens
        /\ (opName = "Configure" /\ pc \in {"cfg_decode", "cfg_apply"}) =>
               token \in vlt.tokens

\* C31 failing run: Init with InitRootToken set and StoreRootToken=true
\* returned success; Vault knows the orphan token alone, vault-root holds the
\* root token Init revoked, and a Configure is about to apply its
\* configuration with that token.
C31_Witness ==
    /\ cfg.StoreRootToken /\ cfg.InitRootToken = StaticRoot
    /\ hist.initOK
    /\ opName = "Configure" /\ pc = "cfg_apply"
    /\ Holds(keyStore, <<"vault-root">>, RootTok)
    /\ token = RootTok
    /\ vlt.tokens = {StaticRoot}

\* The GenerateRootUpdate requests of the running Configure.
GenerateRootUpdates == CallsOf(trace, {"GenerateRootUpdate"})

\* The running Configure is past the generate-root protocol: it is at the
\* decoding, at the sub-configurators, or has returned from one of them.
PastGenerateRoot ==
    \/ pc \in {"cfg_decode", "cfg_apply"}
    \/ pc = "done" /\ (StageEvents # <<>> \/ err = "error decoding externalConfig")

\* C32: with StoreRootToken=false, Configure is past the generate-root
\* protocol only if its last GenerateRootUpdate reported Complete, and then
\* until it returns its client token is the generated token; a Configure
\* whose Required updates were all answered without Complete has applied
\* nothing and does not return success.
C32_ConfigureOnlyWithRootToken ==
    (opName = "Configure" /\ ~cfg.StoreRootToken) =>
        /\ PastGenerateRoot =>
               /\ GenerateRootUpdates # <<>>
               /\ GenerateRootUpdates[Len(GenerateRootUpdates)].res = "complete"
               /\ pc # "done" => token = rootToken /\ token \in vlt.tokens
        /\ (/\ "Required" \in DOMAIN args
            /\ Len(GenerateRootUpdates) = args.Required
            /\ \A n \in 1..Len(GenerateRootUpdates) :
                   GenerateRootUpdates[n].res = "progress") =>
               /\ ~PastGenerateRoot
               /\ pc = "done" => err # "nil"

\* C32 failing run: Vault asked for two shares and answered both updates
\* without Complete; Configure left the loop, decoded its input, ran the
\* seven sub-configurators without a generated token and has returned
\* success, the generate-root session still open.
C32_Witness ==
    /\ opName = "Configure" /\ pc = "done" /\ err = "nil"
    /\ ~cfg.StoreRootToken
    /\ args.Required = 2
    /\ Len(GenerateRootUpdates) = 2
    /\ GenerateRootUpdates[1].res = "progress"
    /\ GenerateRootUpdates[2].res = "progress"
    /\ Len(StageEvents) = 7
    /\ vlt.genroot.started


--------------------------------------------------------------------------
\* Two operator instances running Init against one Vault and one keystore.
\* Each instance has its own position, loop index, Init response, result and
\* call history (pc, i, resp, err and trace map an instance to its value);
\* keyStore and vlt are shared.  One step is one request to the keystore or
\* to Vault, so that the requests of the two instances interleave freely:
\* the Get and the Set of one keyStoreSet are separate steps.  An instance's
\* trace records its requests to Vault and its writes to the keystore; its
\* reads of the keystore are not recorded.

Instances == {"a", "b"}

Upd(f, p, v) == [f EXCEPT ![p] = v]

ConcurrentConfigs ==
    {c \in Configs : c.SecretShares >= c.SecretThreshold /\ c.InitRootToken = EmptyStr}

InitConcurrent ==
    /\ cfg \in ConcurrentConfigs
    /\ pc = [p \in Instances |-> "idle"]
    /\ opName = "Init"
    /\ err = [p \in Instances |-> "nil"]
    /\ trace = [p \in Instances |-> <<>>]
    /\ keyStore \in InitialStores(cfg)
    /\ token = EmptyStr
    /\ vlt \in {FreshVault(r) : r \in BOOLEAN}
    /\ i = [p \in Instances |-> 0]
    /\ resp = [p \in Instances |-> NoResp]
    /\ nonce = 0
    /\ args = [kind |-> "Init", before |-> keyStore]
    /\ rootToken = EmptyStr
    /\ extCfg = [policies |-> "unset"]
    /\ rekeyCfg = NoLoop
    /\ tick = NoTick
    /\ hist = NoHist

\* Instance p returns e from Init.
InstanceDone(p, e) ==
    /\ pc' = Upd(pc, p, "done")
    /\ err' = Upd(err, p, e)

\* Instance p goes on to step s.
InstanceGoto(p, s) ==
    /\ pc' = Upd(pc, p, s)
    /\ err' = Upd(err, p, "running")

InstanceLog(p, e) == trace' = Upd(trace, p, Append(trace[p], e))

\* Lines 391-410: the init-status query of instance p.
InstanceInitStatus(p) ==
    /\ pc[p] = "idle"
    /\ \E fault \in BOOLEAN :
         /\ InstanceLog(p, Ev("InitStatus", NoKey, 0, IF fault THEN "err" ELSE "ok"))
         /\ IF fault
            THEN InstanceDone(p, "error testing if vault is initialized") /\ i' = i
            ELSE IF InitAfterStatus(vlt.initialized, cfg) = "return"
            THEN InstanceDone(p, "nil") /\ i' = i
            ELSE /\ InstanceGoto(p, InitAfterStatus(vlt.initialized, cfg))
                 /\ i' = Upd(i, p, 1)
    /\ Frame({"i"})

\* Lines 113-119: the Get of kvTester.Test.
InstancePreFlightGet(p) ==
    /\ pc[p] = "init_preflight"
    /\ \E fault \in BOOLEAN :
         LET g == Get(keyTestField, fault)
         IN  /\ trace' = trace
             /\ IF g.err # "nil" /\ ~isNotFoundError(g.err)
                THEN InstanceDone(p, "error testing keystore before init")
                ELSE InstanceGoto(p, "init_preflight_set")
    /\ Frame({})

\* Line 121: the Set of kvTester.Test.
InstancePreFlightSet(p) ==
    /\ pc[p] = "init_preflight_set"
    /\ \E fault \in BOOLEAN :
         /\ InstanceLog(p, Ev("Set", keyTestField, 0, IF fault THEN "err" ELSE "ok"))
         /\ IF fault
            THEN /\ InstanceDone(p, "error testing keystore before init")
                 /\ keyStore' = keyStore
            ELSE /\ InstanceGoto(p, "init_probe")
                 /\ keyStore' = Set(keyStore, keyTestField, keyTestField)
    /\ Frame({"keyStore"})

\* Lines 412-430: one probe of instance p.
InstanceProbe(p) ==
    /\ pc[p] = "init_probe"
    /\ \E fault \in BOOLEAN :
         LET key == ProbeKeys(cfg)[i[p]]
             nf == keyStoreNotFound(key, fault)
             verdict == ProbeVerdict(nf.notFound, nf.err)
         IN  /\ trace' = trace
             /\ IF verdict = "checking failed"
                THEN InstanceDone(p, "error before init: checking key failed") /\ i' = i
                ELSE IF verdict = "already exists"
                THEN InstanceDone(p, "error before init: value already exists") /\ i' = i
                ELSE IF i[p] = Len(ProbeKeys(cfg))
                THEN InstanceGoto(p, "init_sealstatus") /\ i' = Upd(i, p, 1)
                ELSE InstanceGoto(p, "init_probe") /\ i' = Upd(i, p, i[p] + 1)
    /\ Frame({"i"})

\* Lines 432-435: the seal status of instance p; the answer's RecoverySeal
\* is the Vault's seal type, which no request changes.
InstanceSealStatus(p) ==
    /\ pc[p] = "init_sealstatus"
    /\ \E fault \in BOOLEAN :
         /\ InstanceLog(p, Ev("SealStatus", NoKey, 0, IF fault THEN "err" ELSE "ok"))
         /\ IF fault THEN InstanceDone(p, "error getting seal status")
            ELSE InstanceGoto(p, "init_vault")
    /\ Frame({})

\* Lines 437-452: the Init request of instance p.
InstanceVaultInit(p) ==
    /\ pc[p] = "init_vault"
    /\ \E fault \in BOOLEAN :
         LET r == VaultInit(vlt, InitRequest(cfg, vlt.recovery))
         IN  IF fault \/ ~r.ok
             THEN /\ InstanceLog(p, Ev("Init", NoKey, 0, "err"))
                  /\ InstanceDone(p, "error initializing vault")
                  /\ vlt' = vlt /\ resp' = resp /\ i' = i
             ELSE /\ InstanceLog(p, Ev("Init", NoKey, 0, "ok"))
                  /\ InstanceGoto(p, "init_store")
                  /\ vlt' = r.v
                  /\ resp' = Upd(resp, p, r.resp)
                  /\ i' = Upd(i, p, 1)
    /\ Frame({"vlt", "resp", "i"})

\* Lines 378-387 within 454-472: the Get of one keyStoreSet of the two loops.
InstanceStoreGet(p) ==
    /\ pc[p] = "init_store"
    /\ \E fault \in BOOLEAN :
         LET item == StoreList(resp[p])[i[p]]
             nf == keyStoreNotFound(item.key, fault)
         IN  /\ trace' = trace
             /\ IF nf.notFound THEN InstanceGoto(p, "init_store_set")
                ELSE InstanceDone(p, item.e)
    /\ Frame({})

\* Lines 378-387 within 454-472: the Set of that keyStoreSet.
InstanceStoreSet(p) ==
    /\ pc[p] = "init_store_set"
    /\ \E fault \in BOOLEAN :
         LET item == StoreList(resp[p])[i[p]]
         IN  /\ InstanceLog(p, Ev("Set", item.key, 0, IF fault THEN "err" ELSE "ok"))
             /\ IF fault
                THEN InstanceDone(p, item.e) /\ keyStore' = keyStore /\ i' = i
                ELSE /\ keyStore' = Set(keyStore, item.key, item.val)
                     /\ IF i[p] = Len(StoreList(resp[p]))
                        THEN InstanceGoto(p, "init_root") /\ i' = Upd(i, p, 0)
                        ELSE InstanceGoto(p, "init_store") /\ i' = Upd(i, p, i[p] + 1)
    /\ Frame({"keyStore", "i"})

\* Lines 519-528: the Get of the root token's keyStoreSet, or the return
\* when the root token is not stored.
InstanceRootGet(p) ==
    /\ pc[p] = "init_root"
    /\ IF cfg.StoreRootToken
       THEN \E fault \in BOOLEAN :
              LET nf == keyStoreNotFound(keyRootToken, fault)
              IN  /\ trace' = trace
                  /\ IF nf.notFound THEN InstanceGoto(p, "init_root_set")
                     ELSE InstanceDone(p, "error storing root token")
       ELSE trace' = trace /\ InstanceDone(p, "nil")
    /\ Frame({})

\* Lines 519-528: the Set of the root token's keyStoreSet.
InstanceRootSet(p) ==
    /\ pc[p] = "init_root_set"
    /\ \E fault \in BOOLEAN :
         /\ InstanceLog(p, Ev("Set", keyRootToken, 0, IF fault THEN "err" ELSE "ok"))
         /\ IF fault
            THEN InstanceDone(p, "error storing root token") /\ keyStore' = keyStore
            ELSE /\ InstanceDone(p, "nil")
                 /\ keyStore' = Set(keyStore, keyRootToken, resp[p].RootToken)
    /\ Frame({"keyStore"})

NextConcurrent ==
    \/ \E p \in Instances : InstanceInitStatus(p)
    \/ \E p \in Instances : InstancePreFlightGet(p)
    \/ \E p \in Instances : InstancePreFlightSet(p)
    \/ \E p \in Instances : InstanceProbe(p)
    \/ \E p \in Instances : InstanceSealStatus(p)
    \/ \E p \in Instances : InstanceVaultInit(p)
    \/ \E p \in Instances : InstanceStoreGet(p)
    \/ \E p \in Instances : InstanceStoreSet(p)
    \/ \E p \in Instances : InstanceRootGet(p)
    \/ \E p \in Instances : InstanceRootSet(p)

SpecConcurrent == InitConcurrent /\ [][NextConcurrent]_vars

\* The instances that have written under a write-once name.
KeyWriters ==
    {p \in Instances :
        \E m \in 1..Len(trace[p]) :
            /\ trace[p][m].call = "Set" /\ trace[p][m].res = "ok"
            /\ trace[p][m].key \in WriteOnceNames}

\* The instances whose Init request Vault has accepted.
InitWinners ==
    {p \in Instances :
        \E m \in 1..Len(trace[p]) :
            trace[p][m].call = "Init" /\ trace[p][m].res = "ok"}

\* What the Init response r carries for the name k, if anything.
ReturnedFor(r, k, v) ==
    /\ r.kind = "init"
    /\ \/ k = <<"vault-root">> /\ v = r.RootToken
       \/ \E n \in 1..Len(r.Keys) : k = <<"vault-unseal-", n - 1>> /\ v = r.Keys[n]
       \/ \E n \in 1..Len(r.RecoveryKeys) :
            k = <<"vault-recovery-", n - 1>> /\ v = r.RecoveryKeys[n]

\* C33: when two operator instances run Init concurrently against one
\* uninitialized Vault and one keystore, Vault accepting at most one Init
\* request, then in every interleaving at most one instance writes key
\* material, that instance is the one whose Init request Vault accepted, and
\* every value the run has put under vault-unseal-i, vault-recovery-i or
\* vault-root is the one that single accepted request returned.
C33_OneInstanceWritesKeys ==
    /\ Cardinality(InitWinners) <= 1
    /\ Cardinality(KeyWriters) <= 1
    /\ KeyWriters \subseteq InitWinners
    /\ \A k \in WriteOnceNames \cap DOMAIN keyStore :
         \/ k \in DOMAIN args.before /\ keyStore[k] = args.before[k]
         \/ \E p \in InitWinners : ReturnedFor(resp[p], k, keyStore[k])

\* Both instances saw an uninitialized Vault and passed the probes, Vault
\* accepted one Init request and refused the other, and the accepted
\* instance has stored every key and the root token.
C33_Witness ==
    \E p, q \in Instances :
        /\ p # q
        /\ InitWinners = {p} /\ KeyWriters = {p}
        /\ pc[p] = "done" /\ err[p] = "nil"
        /\ pc[q] = "done" /\ err[q] = "error initializing vault"
        /\ \E m \in 1..Len(trace[q]) :
             /\ trace[q][m].call = "Init" /\ trace[q][m].res = "err"
             /\ trace[q][m - 1].call = "SealStatus" /\ trace[q][m - 1].res = "ok"
        /\ cfg.SecretShares = MaxShares /\ cfg.StoreRootToken
        /\ Holds(keyStore, <<"vault-root">>, resp[p].RootToken)
        /\ \A n \in 0..(MaxShares - 1) :
             \/ Holds(keyStore, <<"vault-unseal-", n>>, resp[p].Keys[n + 1])
             \/ Holds(keyStore, <<"vault-recovery-", n>>, resp[p].RecoveryKeys[n + 1])

====
